---- MODULE Spec2Model ----
(***************************************************************************)
(* A model of takopi's swarm subsystem:                                    *)
(*   - the queue file, its writers and the tailer poll_swarm_inbox         *)
(*     (src/src/takopi/swarm/inbox.py), checked under SpecInbox;           *)
(*   - the reconciliation service ensure_topic_thread                     *)
(*     (src/src/takopi/swarm/service.py), checked under SpecTopic.         *)
(*                                                                         *)
(* Python's Optional[T] is a sequence of length 0 (None) or 1 (a value),   *)
(* so that TLC never compares values of different types.                   *)
(***************************************************************************)
EXTENDS Integers, Sequences, FiniteSets, TLC

\* ------------------------------------------------------------------ bounds
\* ensure_topic_thread calls begun in one behaviour
MaxCalls == 3
\* tasks that may call ensure_topic_thread
NumCallers == 2
\* lines the writers may append to the queue file in one behaviour
MaxLines == 3
\* times the queue file may be removed in one behaviour
MaxDeletes == 1
\* times the queue file may be replaced by a shorter one in one behaviour
MaxReplaces == 1

\* ------------------------------------------------------------ Optional[T]
None == <<>>
Some(x) == <<x>>
IsNone(o) == Len(o) = 0
TheVal(o) == o[1]

\* -------------------------------------------------------------- the bytes
(* The queue file is a sequence of tokens.  A token stands for a run of   *)
(* bytes of the JSON text: the delimiter, a blank, a brace, one           *)
(* "key":value member, or bytes that are no JSON.  k is the member's key   *)
(* (or the token's own spelling), t the JSON type of the value, v its      *)
(* characters.                                                             *)
Tok(k, t, v) == [k |-> k, t |-> t, v |-> v]
NL == Tok("\n", "ws", <<>>)
SP == Tok(" ", "ws", <<>>)
LB == Tok("{", "punct", <<>>)
RB == Tok("}", "punct", <<>>)
JUNK == Tok("x", "junk", <<>>)
IsMember(tok) == tok.t \in {"int", "str", "null"}

\* decimal digits of integers, as JSON spells them
DigitChars == <<"0", "1", "2", "3", "4", "5", "6", "7", "8", "9">>
DigitVal(c) == (CHOOSE i \in 1..10 : DigitChars[i] = c) - 1
RECURSIVE NatToDigits(_)
NatToDigits(n) ==
    IF n < 10 THEN <<DigitChars[n + 1]>>
    ELSE Append(NatToDigits(n \div 10), DigitChars[(n % 10) + 1])
IntToChars(n) == IF n < 0 THEN <<"-">> \o NatToDigits(-n) ELSE NatToDigits(n)
RECURSIVE DigitsToNat(_)
DigitsToNat(cs) ==
    IF Len(cs) = 0 THEN 0
    ELSE 10 * DigitsToNat(SubSeq(cs, 1, Len(cs) - 1)) + DigitVal(cs[Len(cs)])
CharsToInt(cs) ==
    IF cs[1] = "-" THEN -DigitsToNat(Tail(cs)) ELSE DigitsToNat(cs)

\* ------------------------------------------------------- SwarmEnvelope
SwarmIntent == {"control", "trigger"}
KnownFields == {"version", "event_id", "intent", "chat_id", "thread_id",
                "text", "origin_agent", "created_at"}
RequiredFields == {"event_id", "intent", "chat_id", "text"}
DefaultVersion == 1

SwarmEnvelope(ver, eid, intent, chat, thread, text, agent, at) ==
    [version |-> ver, event_id |-> eid, intent |-> intent, chat_id |-> chat,
     thread_id |-> thread, text |-> text, origin_agent |-> agent,
     created_at |-> at]

\* a JSON value of each Python type
JInt(k, n) == Tok(k, "int", IntToChars(n))
JStr(k, s) == Tok(k, "str", <<s>>)
JText(k, chars) == Tok(k, "str", chars)
JOptInt(k, o) == IF IsNone(o) THEN Tok(k, "null", <<>>) ELSE JInt(k, TheVal(o))
JOptStr(k, o) == IF IsNone(o) THEN Tok(k, "null", <<>>) ELSE JStr(k, TheVal(o))

\* mutant: an absent optional field is left out of the encoding, and an
\* empty string with it
MutEncodeOmitsEmpty(e) ==
    SelectSeq(<<LB, JInt("version", e.version), JStr("event_id", e.event_id),
                JStr("intent", e.intent), JInt("chat_id", e.chat_id),
                JOptInt("thread_id", e.thread_id), JText("text", e.text),
                JOptStr("origin_agent", e.origin_agent),
                JOptStr("created_at", e.created_at), RB>>,
              LAMBDA tok : tok.t # "null" /\ tok.v # <<"">>)

\* msgspec.json.encode(envelope): every field, in declaration order
Encode(e) ==
    <<LB, JInt("version", e.version), JStr("event_id", e.event_id),
      JStr("intent", e.intent), JInt("chat_id", e.chat_id),
      JOptInt("thread_id", e.thread_id), JText("text", e.text),
      JOptStr("origin_agent", e.origin_agent),
      JOptStr("created_at", e.created_at), RB>>

\* the type each field accepts (strict decoding: no coercion)
FieldTypes(k) ==
    CASE k = "version" -> {"int"}
      [] k = "event_id" -> {"str"}
      [] k = "intent" -> {"str"}
      [] k = "chat_id" -> {"int"}
      [] k = "thread_id" -> {"int", "null"}
      [] k = "text" -> {"str"}
      [] k = "origin_agent" -> {"str", "null"}
      [] k = "created_at" -> {"str", "null"}
      [] OTHER -> {}

\* mutant: a field the schema does not know is ignored
MutDecodeIgnoresUnknown(raw) ==
    LET n == Len(raw)
        body == IF n >= 2 THEN SubSeq(raw, 2, n - 1) ELSE <<>>
        keys == {body[i].k : i \in 1..Len(body)}
        \* the last member with key k
        M(k) == body[CHOOSE i \in 1..Len(body) :
                       /\ body[i].k = k
                       /\ \A j \in 1..Len(body) : body[j].k = k => j <= i]
        Has(k) == k \in keys
        OptInt(k) == IF Has(k) /\ M(k).t = "int"
                     THEN Some(CharsToInt(M(k).v)) ELSE None
        OptStr(k) == IF Has(k) /\ M(k).t = "str" THEN Some(M(k).v[1]) ELSE None
        wellFormed ==
            /\ n >= 2
            /\ raw[1] = LB
            /\ raw[n] = RB
            /\ \A i \in 1..Len(body) : IsMember(body[i])
        valid ==
            /\ wellFormed
            /\ RequiredFields \subseteq keys
            /\ \A i \in 1..Len(body) :
                  body[i].k \in KnownFields => body[i].t \in FieldTypes(body[i].k)
            /\ M("intent").v[1] \in SwarmIntent
    IN IF valid
       THEN [ok |-> TRUE,
             env |-> SwarmEnvelope(
                 IF Has("version") THEN CharsToInt(M("version").v)
                 ELSE DefaultVersion,
                 M("event_id").v[1], M("intent").v[1],
                 CharsToInt(M("chat_id").v), OptInt("thread_id"),
                 M("text").v, OptStr("origin_agent"), OptStr("created_at"))]
       ELSE [ok |-> FALSE]

\* msgspec.json.decode(raw_line, type=SwarmEnvelope)
Decode(raw) ==
    LET n == Len(raw)
        body == IF n >= 2 THEN SubSeq(raw, 2, n - 1) ELSE <<>>
        keys == {body[i].k : i \in 1..Len(body)}
        \* the last member with key k
        M(k) == body[CHOOSE i \in 1..Len(body) :
                       /\ body[i].k = k
                       /\ \A j \in 1..Len(body) : body[j].k = k => j <= i]
        Has(k) == k \in keys
        OptInt(k) == IF Has(k) /\ M(k).t = "int"
                     THEN Some(CharsToInt(M(k).v)) ELSE None
        OptStr(k) == IF Has(k) /\ M(k).t = "str" THEN Some(M(k).v[1]) ELSE None
        wellFormed ==
            /\ n >= 2
            /\ raw[1] = LB
            /\ raw[n] = RB
            /\ \A i \in 1..Len(body) : IsMember(body[i])
        valid ==
            /\ wellFormed
            /\ keys \subseteq KnownFields
            /\ RequiredFields \subseteq keys
            /\ \A i \in 1..Len(body) : body[i].t \in FieldTypes(body[i].k)
            /\ M("intent").v[1] \in SwarmIntent
    IN IF valid
       THEN [ok |-> TRUE,
             env |-> SwarmEnvelope(
                 IF Has("version") THEN CharsToInt(M("version").v)
                 ELSE DefaultVersion,
                 M("event_id").v[1], M("intent").v[1],
                 CharsToInt(M("chat_id").v), OptInt("thread_id"),
                 M("text").v, OptStr("origin_agent"), OptStr("created_at"))]
       ELSE [ok |-> FALSE]

\* ----------------------------------------------------- bytes operations
IsSpace(tok) == tok.t = "ws"
\* bytes.strip(): drop the blanks at both ends
RECURSIVE LStrip(_)
LStrip(s) == IF Len(s) > 0 /\ IsSpace(s[1]) THEN LStrip(Tail(s)) ELSE s
RECURSIVE RStrip(_)
RStrip(s) ==
    IF Len(s) > 0 /\ IsSpace(s[Len(s)])
    THEN RStrip(SubSeq(s, 1, Len(s) - 1)) ELSE s
Strip(s) == LStrip(RStrip(s))

\* payload.split(b"\n"): the segments between delimiters, never empty
RECURSIVE SplitNL(_)
SplitNL(s) ==
    IF \A i \in 1..Len(s) : s[i] # NL THEN <<s>>
    ELSE LET i == CHOOSE i \in 1..Len(s) :
                     s[i] = NL /\ \A j \in 1..(i - 1) : s[j] # NL
         IN <<SubSeq(s, 1, i - 1)>> \o SplitNL(SubSeq(s, i + 1, Len(s)))

\* str.strip() of the text is empty: every character is white space
WhiteChars == {" ", "\t", "\n"}
TextIsBlank(text) == \A i \in 1..Len(text) : text[i] \in WhiteChars

\* --------------------------------------------------- the ingress translator
\* mutant: the message loses the record's thread and takes its label from
\* the event id
MutMessageWrongFields(envelope, message_id) ==
    [transport |-> "telegram", chat_id |-> envelope.chat_id,
     message_id |-> message_id, text |-> envelope.text,
     reply_to_message_id |-> None, reply_to_text |-> None, sender_id |-> None,
     thread_id |-> None, raw |-> envelope,
     ingress_source |-> "swarm", ingress_intent |-> envelope.intent,
     origin_agent |-> Some(envelope.event_id)]

TelegramIncomingMessage(envelope, message_id) ==
    [transport |-> "telegram", chat_id |-> envelope.chat_id,
     message_id |-> message_id, text |-> envelope.text,
     reply_to_message_id |-> None, reply_to_text |-> None, sender_id |-> None,
     thread_id |-> envelope.thread_id, raw |-> envelope,
     ingress_source |-> "swarm", ingress_intent |-> envelope.intent,
     origin_agent |-> envelope.origin_agent]

\* mutant: the check of the text is missing
MutToSyntheticNoBlankCheck(envelope, message_id) ==
    IF envelope.intent # "trigger" THEN None
    ELSE Some(TelegramIncomingMessage(envelope, message_id))

\* _to_synthetic_message: None, or the message
ToSyntheticMessage(envelope, message_id) ==
    IF envelope.intent # "trigger" THEN None
    ELSE IF TextIsBlank(envelope.text) THEN None
    ELSE Some(TelegramIncomingMessage(envelope, message_id))

\* ------------------------------------------------------------- the tailer
\* mutant: the new offset is the length of the chunk, the old offset is not
\* added
MutReadChunkForgetsOffset(bytes, offset) ==
    LET size == Len(bytes)
        from == IF size < offset THEN 0 ELSE offset
        chunk == SubSeq(bytes, from + 1, size)
    IN [chunk |-> chunk, offset |-> Len(chunk), handles |-> 0]

\* mutant: the handle is not closed when the chunk is returned
MutReadChunkLeavesOpen(bytes, offset) ==
    LET size == Len(bytes)
        from == IF size < offset THEN 0 ELSE offset
        chunk == SubSeq(bytes, from + 1, size)
    IN [chunk |-> chunk, offset |-> from + Len(chunk), handles |-> 1]

\* mutant: every read starts at byte 0
MutReadChunkRereads(bytes, offset) ==
    LET size == Len(bytes)
        chunk == SubSeq(bytes, 1, size)
    IN [chunk |-> chunk, offset |-> Len(chunk), handles |-> 0]

\* mutant: the read starts at the offset whatever the size of the file
MutReadChunkNoRewind(bytes, offset) ==
    LET size == Len(bytes)
        chunk == SubSeq(bytes, offset + 1, size)
    IN [chunk |-> chunk, offset |-> offset + Len(chunk), handles |-> 0]

\* _read_chunk: the bytes from the offset (from 0 when the file is shorter
\* than the offset) to the end of the file, and the new offset; handles is
\* the number of handles it leaves open, the with block having closed the
\* one it opened
ReadChunk(bytes, offset) ==
    LET size == Len(bytes)
        from == IF size < offset THEN 0 ELSE offset
        chunk == SubSeq(bytes, from + 1, size)
    IN [chunk |-> chunk, offset |-> from + Len(chunk), handles |-> 0]

\* the state of one poll_swarm_inbox generator: its locals, the lines of the
\* for loop not yet visited, where it is suspended, what it has yielded, and
\* the number of file handles it holds open
NewStream ==
    [pc |-> "start", offset |-> 0, remainder |-> <<>>, next_message_id |-> -1,
     lines |-> <<>>, yielded |-> <<>>, handles |-> 0]

\* what one line of the for loop does to the locals: skip, or yield
LineOutcome(line, next_message_id) ==
    LET raw_line == Strip(line)
        d == IF raw_line = <<>> THEN [ok |-> FALSE] ELSE Decode(raw_line)
    IN IF d.ok THEN ToSyntheticMessage(d.env, next_message_id) ELSE None

\* mutant: a decode error is not caught and ends the generator
RECURSIVE MutRunLinesDecodeErrorEscapes(_)
MutRunLinesDecodeErrorEscapes(st) ==
    IF st.lines = <<>> THEN [st EXCEPT !.pc = "sleep"]
    ELSE LET line == Head(st.lines)
             message == LineOutcome(line, st.next_message_id)
             rest == [st EXCEPT !.lines = Tail(st.lines)]
         IN IF Strip(line) # <<>> /\ ~Decode(Strip(line)).ok
            THEN [rest EXCEPT !.pc = "raised"]
            ELSE IF IsNone(message) THEN MutRunLinesDecodeErrorEscapes(rest)
            ELSE [rest EXCEPT !.pc = "yield",
                              !.next_message_id = st.next_message_id - 1,
                              !.yielded = Append(st.yielded, TheVal(message))]

\* mutant: the id is not decremented after a yield
RECURSIVE MutRunLinesKeepsId(_)
MutRunLinesKeepsId(st) ==
    IF st.lines = <<>> THEN [st EXCEPT !.pc = "sleep"]
    ELSE LET message == LineOutcome(Head(st.lines), st.next_message_id)
             rest == [st EXCEPT !.lines = Tail(st.lines)]
         IN IF IsNone(message) THEN MutRunLinesKeepsId(rest)
            ELSE [rest EXCEPT !.pc = "yield",
                              !.yielded = Append(st.yielded, TheVal(message))]

\* the for loop over lines, run up to its next suspension: the yield of a
\* message, or the sleep that ends the cycle
RECURSIVE RunLines(_)
RunLines(st) ==
    IF st.lines = <<>> THEN [st EXCEPT !.pc = "sleep"]
    ELSE LET message == LineOutcome(Head(st.lines), st.next_message_id)
             rest == [st EXCEPT !.lines = Tail(st.lines)]
         IN IF IsNone(message) THEN RunLines(rest)
            ELSE [rest EXCEPT !.pc = "yield",
                              !.next_message_id = st.next_message_id - 1,
                              !.yielded = Append(st.yielded, TheVal(message))]

\* mutant: the pending fragment is not put before the chunk
MutPollCycleDropsRemainder(st, fexists, fbytes) ==
    IF ~fexists
    THEN [st EXCEPT !.offset = 0, !.remainder = <<>>, !.pc = "sleep"]
    ELSE LET r == ReadChunk(fbytes, st.offset)
         IN IF r.chunk # <<>>
            THEN LET payload == r.chunk
                     segs == SplitNL(payload)
                 IN RunLines([st EXCEPT
                                 !.offset = r.offset,
                                 !.handles = st.handles + r.handles,
                                 !.lines = SubSeq(segs, 1, Len(segs) - 1),
                                 !.remainder = segs[Len(segs)]])
            ELSE [st EXCEPT !.offset = r.offset, !.pc = "sleep",
                            !.handles = st.handles + r.handles]

\* mutant: a missing file leaves the offset and the fragment as they were
MutPollCycleNoReset(st, fexists, fbytes) ==
    IF ~fexists
    THEN [st EXCEPT !.pc = "sleep"]
    ELSE LET r == ReadChunk(fbytes, st.offset)
         IN IF r.chunk # <<>>
            THEN LET payload == st.remainder \o r.chunk
                     segs == SplitNL(payload)
                 IN RunLines([st EXCEPT
                                 !.offset = r.offset,
                                 !.handles = st.handles + r.handles,
                                 !.lines = SubSeq(segs, 1, Len(segs) - 1),
                                 !.remainder = segs[Len(segs)]])
            ELSE [st EXCEPT !.offset = r.offset, !.pc = "sleep",
                            !.handles = st.handles + r.handles]

\* mutant: the last segment is taken for a line too, and kept as fragment
MutPollCycleDecodesFragment(st, fexists, fbytes) ==
    IF ~fexists
    THEN [st EXCEPT !.offset = 0, !.remainder = <<>>, !.pc = "sleep"]
    ELSE LET r == ReadChunk(fbytes, st.offset)
         IN IF r.chunk # <<>>
            THEN LET payload == st.remainder \o r.chunk
                     segs == SplitNL(payload)
                 IN RunLines([st EXCEPT
                                 !.offset = r.offset,
                                 !.handles = st.handles + r.handles,
                                 !.lines = segs,
                                 !.remainder = segs[Len(segs)]])
            ELSE [st EXCEPT !.offset = r.offset, !.pc = "sleep",
                            !.handles = st.handles + r.handles]

\* mutant: a missing file resets the id counter too
MutPollCycleResetsId(st, fexists, fbytes) ==
    IF ~fexists
    THEN [st EXCEPT !.offset = 0, !.remainder = <<>>, !.next_message_id = -1,
                    !.pc = "sleep"]
    ELSE LET r == ReadChunk(fbytes, st.offset)
         IN IF r.chunk # <<>>
            THEN LET payload == st.remainder \o r.chunk
                     segs == SplitNL(payload)
                 IN RunLines([st EXCEPT
                                 !.offset = r.offset,
                                 !.handles = st.handles + r.handles,
                                 !.lines = SubSeq(segs, 1, Len(segs) - 1),
                                 !.remainder = segs[Len(segs)]])
            ELSE [st EXCEPT !.offset = r.offset, !.pc = "sleep",
                            !.handles = st.handles + r.handles]

\* one pass of the while loop, from the read to the next suspension
PollCycle(st, fexists, fbytes) ==
    IF ~fexists
    THEN [st EXCEPT !.offset = 0, !.remainder = <<>>, !.pc = "sleep"]
    ELSE LET r == ReadChunk(fbytes, st.offset)
         IN IF r.chunk # <<>>
            THEN LET payload == st.remainder \o r.chunk
                     segs == SplitNL(payload)
                 IN RunLines([st EXCEPT
                                 !.offset = r.offset,
                                 !.handles = st.handles + r.handles,
                                 !.lines = SubSeq(segs, 1, Len(segs) - 1),
                                 !.remainder = segs[Len(segs)]])
            ELSE [st EXCEPT !.offset = r.offset, !.pc = "sleep",
                            !.handles = st.handles + r.handles]

\* ---------------------------------------------- the lines writers append
EnvA == SwarmEnvelope(1, "a", "trigger", 123, Some(19), <<"h", "i">>, Some("manager"), Some("t0"))
EnvB == SwarmEnvelope(1, "b", "trigger", -7, None, <<" ", "y">>, None, None)
EnvC == SwarmEnvelope(1, "c", "trigger", 123, Some(4), <<"o", "k">>, Some("worker"), Some("t1"))
EnvCtl == SwarmEnvelope(1, "d", "control", 123, Some(19), <<"c", "t">>, None, Some("t2"))
EnvBlank == SwarmEnvelope(1, "e", "trigger", 123, Some(19), <<" ", "\t">>, Some("manager"), None)
Envelopes == {EnvA, EnvB, EnvC, EnvCtl, EnvBlank}
\* lines no complete append_swarm_envelope call writes: a record cut in the
\* middle of a member (bytes that are no JSON) and run into the next one, a
\* record with a field the schema does not know, a blank line
TruncatedLine == <<LB, JInt("version", 1), JUNK, LB, RB>>
UnknownFieldLine ==
    <<LB, JStr("event_id", "g"), JStr("intent", "trigger"), JInt("chat_id", 123),
      JText("text", <<"u">>), JStr("extra", "1"), RB>>
BlankLine == <<SP>>
ForeignLines == {TruncatedLine, UnknownFieldLine, BlankLine}
LineChoices == {Encode(e) : e \in Envelopes} \cup ForeignLines

\* ------------------------------------------------------------------ state
VARIABLES
    file,       \* the bytes of the queue file (<<>> while it does not exist)
    exists,     \* whether the queue file exists
    inflight,   \* bytes of a write in progress that are not yet in the file
    written,    \* lines begun so far
    deletes,    \* removals of the file so far
    stream,     \* the tailer
    synced      \* history: Some(n) while the stream's offset counts bytes of
                \* the file as it is now, n messages having been yielded
                \* before it started on this file; None once the file was
                \* removed and no poll has yet found it missing

\* the reconciliation service and its collaborators
VARIABLES
    store,      \* the snapshots of the state store
    topics,     \* the forum topics of the chat platform: [chat_id, thread_id, name]
    nextThread, \* the thread id the platform gives the next topic
    call,       \* the ensure_topic_thread call of each caller
    started,    \* calls begun so far
    prev        \* history: the call that ended last, or None

\* the command line, the appender, and the functions run on their own
VARIABLES
    cmd,        \* the topics ensure command: where it is and how it ended
    disk,       \* the queue directory and file as append_swarm_envelope sees them
    codec,      \* an envelope, its encoding, and the decoding of that
    parsed,     \* a plugins table and what parsing it gave
    projected   \* a snapshot, an alias table, and the status made of them

\* the worktree resolver, a second tailer of the same queue file, and the
\* replacements of the queue file
VARIABLES
    tree,       \* a run context, the repository it meets, and what resolving gave
    other,      \* a second poll_swarm_inbox generator on the same file
    replaces    \* replacements of the queue file by a shorter one so far

inboxVars == <<file, exists, inflight, written, deletes, stream, synced>>
topicVars == <<store, topics, nextThread, call, started, prev>>
moreVars == <<tree, other, replaces>>
auxVars == <<cmd, disk, codec, parsed, projected, moreVars>>
vars == <<inboxVars, topicVars, auxVars>>

InitInbox ==
    /\ file = <<>>
    /\ exists = FALSE
    /\ inflight = <<>>
    /\ written = 0
    /\ deletes = 0
    /\ stream = NewStream
    /\ synced = Some(0)

\* the places where a write of n bytes is seen cut in two by a reader: in
\* its middle, before its delimiter, or not at all
SplitChoices(n) == {n \div 2, n - 1, n} \cap (1..n)

\* a writer appends a line and its delimiter; the first k bytes are in the
\* file at once, the others follow (append_swarm_envelope, or any other
\* appender of the queue)
BeginWrite(line, k) ==
    /\ inflight = <<>>
    /\ written < MaxLines
    /\ LET data == Append(line, NL)
       IN /\ k \in 1..Len(data)
          /\ file' = file \o SubSeq(data, 1, k)
          /\ inflight' = SubSeq(data, k + 1, Len(data))
    /\ exists' = TRUE
    /\ written' = written + 1
    /\ UNCHANGED <<deletes, stream, synced, topicVars, auxVars>>

\* the rest of the write reaches the file
FinishWrite ==
    /\ inflight # <<>>
    /\ file' = file \o inflight
    /\ inflight' = <<>>
    /\ UNCHANGED <<exists, written, deletes, stream, synced, topicVars, auxVars>>

\* the queue file is removed (the tailer's FileNotFoundError case)
DeleteFile ==
    /\ exists
    /\ deletes < MaxDeletes
    /\ exists' = FALSE
    /\ file' = <<>>
    /\ inflight' = <<>>
    /\ deletes' = deletes + 1
    /\ synced' = None
    /\ UNCHANGED <<written, stream, topicVars, auxVars>>

\* the consumer asks for the next message of a stream that has not started
\* or is asleep: the sleep ends and the next cycle runs to its suspension
Poll ==
    /\ stream.pc \in {"start", "sleep"}
    /\ stream' = PollCycle(stream, exists, file)
    /\ synced' = IF exists THEN synced ELSE Some(Len(stream.yielded))
    /\ UNCHANGED <<file, exists, inflight, written, deletes, topicVars, auxVars>>

\* the consumer asks for the next message of a stream suspended at a yield
Resume ==
    /\ stream.pc = "yield"
    /\ stream' = RunLines(stream)
    /\ UNCHANGED <<file, exists, inflight, written, deletes, synced, topicVars, auxVars>>

NextInbox ==
    \/ \E line \in LineChoices : \E k \in SplitChoices(Len(line) + 1) : BeginWrite(line, k)
    \/ FinishWrite
    \/ DeleteFile
    \/ Poll
    \/ Resume


\* ---- a queue file that exists and only grows
\* more of a write in progress reaches the file, not yet all of it
ContinueWrite ==
    /\ Len(inflight) >= 2
    /\ file' = file \o SubSeq(inflight, 1, Len(inflight) \div 2)
    /\ inflight' = SubSeq(inflight, Len(inflight) \div 2 + 1, Len(inflight))
    /\ UNCHANGED <<exists, written, deletes, stream, synced, topicVars, auxVars>>

NextGrow ==
    \/ \E line \in LineChoices : \E k \in SplitChoices(Len(line) + 1) : BeginWrite(line, k)
    \/ ContinueWrite
    \/ FinishWrite
    \/ Poll
    \/ Resume

\* ---- a queue file that is removed, truncated or replaced
\* what a replaced queue file may hold: nothing, one record, the first half
\* of a record
ReplaceChoices ==
    {<<>>, Append(Encode(EnvA), NL),
     SubSeq(Encode(EnvA), 1, Len(Encode(EnvA)) \div 2)}

\* the queue file is truncated, or replaced by a shorter file; what a write
\* in progress had not yet put into the old file is lost
ReplaceFile(content) ==
    /\ exists
    /\ replaces < MaxReplaces
    /\ Len(content) < Len(file)
    /\ file' = content
    /\ inflight' = <<>>
    /\ replaces' = replaces + 1
    /\ synced' = None
    /\ UNCHANGED <<exists, written, deletes, stream, topicVars,
                   cmd, disk, codec, parsed, projected, tree, other>>

\* the lines of the writers here: a trigger, a control record, a trigger with
\* a blank text, a record cut short, a blank line
ReplaceLines ==
    {Encode(EnvA), Encode(EnvCtl), Encode(EnvBlank), TruncatedLine, BlankLine}

NextReplace ==
    \/ \E line \in ReplaceLines : \E k \in {(Len(line) + 1) \div 2, Len(line) + 1} :
           BeginWrite(line, k)
    \/ FinishWrite
    \/ DeleteFile
    \/ \E content \in ReplaceChoices : ReplaceFile(content)
    \/ Poll
    \/ Resume

\* ---- two streams on one queue file
\* mutant: offset, fragment and id counter are one state for all streams
MutPollOtherSharesState ==
    /\ other.pc \in {"start", "sleep"}
    /\ other' = PollCycle([other EXCEPT !.offset = stream.offset,
                                        !.remainder = stream.remainder,
                                        !.next_message_id = stream.next_message_id],
                          exists, file)
    /\ UNCHANGED <<inboxVars, topicVars, cmd, disk, codec, parsed, projected,
                   tree, replaces>>

\* the second poll_swarm_inbox generator, with its own locals, runs one pass
\* of its loop on the same file; its first pass starts it
PollOther ==
    /\ other.pc \in {"start", "sleep"}
    /\ other' = PollCycle(other, exists, file)
    /\ UNCHANGED <<inboxVars, topicVars, cmd, disk, codec, parsed, projected,
                   tree, replaces>>

\* the consumer of the second stream asks for its next message
ResumeOther ==
    /\ other.pc = "yield"
    /\ other' = RunLines(other)
    /\ UNCHANGED <<inboxVars, topicVars, cmd, disk, codec, parsed, projected,
                   tree, replaces>>

\* the lines of the writers here: two triggers, a control record, a record
\* cut short
TwoLines == {Encode(EnvA), Encode(EnvC), Encode(EnvCtl), TruncatedLine}

NextTwo ==
    \/ \E line \in TwoLines : \E k \in {(Len(line) + 1) \div 2, Len(line) + 1} :
           BeginWrite(line, k)
    \/ FinishWrite
    \/ Poll
    \/ Resume
    \/ PollOther
    \/ ResumeOther

\* ---- the tailer statement by statement
\* payload.split(b"\n") read off the places of the delimiters: segment k
\* lies between delimiter k - 1 and delimiter k
Segments(s) ==
    LET nl == {i \in 1..Len(s) : s[i] = NL}
        Lo(k) == CHOOSE c \in {0} \cup nl : Cardinality({j \in nl : j <= c}) = k - 1
        Hi(k) == CHOOSE c \in nl \cup {Len(s) + 1} :
                     Cardinality({j \in nl : j < c}) = k - 1
    IN [k \in 1..(Cardinality(nl) + 1) |-> SubSeq(s, Lo(k) + 1, Hi(k) - 1)]

\* mutant: the last segment is dropped, not held for the next cycle
MutReadAndSplitForgetsFragment(st, fexists, fbytes) ==
    IF ~fexists
    THEN [st EXCEPT !.offset = 0, !.remainder = <<>>, !.pc = "sleep"]
    ELSE LET r == ReadChunk(fbytes, st.offset)
         IN IF r.chunk # <<>>
            THEN CHOOSE after \in
                     {[st EXCEPT !.offset = r.offset,
                                 !.handles = st.handles + r.handles,
                                 !.lines = SubSeq(segs, 1, Len(segs) - 1),
                                 !.remainder = <<>>,
                                 !.pc = "loop"] :
                      segs \in {Segments(payload) :
                                   payload \in {st.remainder \o r.chunk}}} : TRUE
            ELSE [st EXCEPT !.offset = r.offset, !.pc = "sleep",
                            !.handles = st.handles + r.handles]

\* the head of one pass of the while loop: the read, the split, the last
\* segment held back; with a chunk the for loop is entered, without one the
\* pass ends at the sleep. The payload and its segments are bound to their
\* values once.
ReadAndSplit(st, fexists, fbytes) ==
    IF ~fexists
    THEN [st EXCEPT !.offset = 0, !.remainder = <<>>, !.pc = "sleep"]
    ELSE LET r == ReadChunk(fbytes, st.offset)
         IN IF r.chunk # <<>>
            THEN CHOOSE after \in
                     {[st EXCEPT !.offset = r.offset,
                                 !.handles = st.handles + r.handles,
                                 !.lines = SubSeq(segs, 1, Len(segs) - 1),
                                 !.remainder = segs[Len(segs)],
                                 !.pc = "loop"] :
                      segs \in {Segments(payload) :
                                   payload \in {st.remainder \o r.chunk}}} : TRUE
            ELSE [st EXCEPT !.offset = r.offset, !.pc = "sleep",
                            !.handles = st.handles + r.handles]

\* one iteration of the for loop: the line is stripped and decoded, then
\* skipped or its message is yielded; with no line left the pass ends at the
\* sleep. Each local is bound to its value once, as the loop computes it.
LineStep(st) ==
    IF st.lines = <<>> THEN [st EXCEPT !.pc = "sleep"]
    ELSE CHOOSE after \in
             {IF IsNone(message) THEN [st EXCEPT !.lines = Tail(st.lines)]
              ELSE [st EXCEPT !.lines = Tail(st.lines),
                              !.pc = "yield",
                              !.next_message_id = st.next_message_id - 1,
                              !.yielded = Append(st.yielded, TheVal(message))] :
              message \in
                  {IF d.ok THEN ToSyntheticMessage(d.env, st.next_message_id)
                   ELSE None :
                   d \in {IF raw_line = <<>> THEN [ok |-> FALSE]
                          ELSE Decode(raw_line) :
                          raw_line \in {Strip(Head(st.lines))}}}} : TRUE

\* the sleep ends: the stream reads the file and splits what it read
ReadStep ==
    /\ stream.pc \in {"start", "sleep"}
    /\ stream' = ReadAndSplit(stream, exists, file)
    /\ synced' = IF exists THEN synced ELSE Some(Len(stream.yielded))
    /\ UNCHANGED <<file, exists, inflight, written, deletes, topicVars, auxVars>>

\* the for loop takes its next line
LoopStep ==
    /\ stream.pc = "loop"
    /\ stream' = LineStep(stream)
    /\ UNCHANGED <<file, exists, inflight, written, deletes, synced, topicVars, auxVars>>

\* the consumer asks for the next message: the generator goes on after its
\* yield, in the for loop
ResumeStep ==
    /\ stream.pc = "yield"
    /\ stream' = [stream EXCEPT !.pc = "loop"]
    /\ UNCHANGED <<file, exists, inflight, written, deletes, synced, topicVars, auxVars>>

\* the lines of the writers here: a trigger, a control record, a record cut
\* short, a blank line
LoopLines == {Encode(EnvA), Encode(EnvCtl), TruncatedLine, BlankLine}

NextLoop ==
    \/ \E line \in LoopLines : \E k \in SplitChoices(Len(line) + 1) : BeginWrite(line, k)
    \/ FinishWrite
    \/ ReadStep
    \/ LoopStep
    \/ ResumeStep

\* ============================================ the reconciliation service
\* the inputs of the calls
Chats == {1, 2}
ProjectKeys == {"demo", "api"}
AliasChoices(key) == IF key = "demo" THEN {"Demo", "Demo v2"} ELSE {"Api"}
\* a branch is the characters of its name
BranchChoices == {None, Some(<<"d", "e", "v">>)}
Callers == 1..NumCallers

RunContext(project, branch) == [project |-> project, branch |-> branch]

\* mutant: only an absent branch gives the alias alone
MutTitleKeepsEmptyBranch(project_alias, branch) ==
    IF ~IsNone(branch)
    THEN <<project_alias, " @", TheVal(branch)>>
    ELSE <<project_alias>>

\* build_topic_title: the pieces of the f-string
build_topic_title(project_alias, branch) ==
    IF ~IsNone(branch) /\ TheVal(branch) # <<>>
    THEN <<project_alias, " @", TheVal(branch)>>
    ELSE <<project_alias>>

TopicThreadSnapshot(chat, thread, context, sessions, title, engine) ==
    [chat_id |-> chat, thread_id |-> thread, context |-> context,
     sessions |-> sessions, topic_title |-> title, default_engine |-> engine]

\* every session key, in sorted order
SessionOrder == <<"claude", "codex", "gemini">>
Sorted(keys) == SelectSeq(SessionOrder, LAMBDA k : k \in keys)

\* mutant: the sessions are output in the reverse of sorted order
MutStatusSessionsUnsorted(snapshot, project_aliases) ==
    LET hasContext == ~IsNone(snapshot.context)
        project_key == IF hasContext THEN Some(TheVal(snapshot.context).project)
                       ELSE None
        known == {kv \in project_aliases : hasContext /\ kv[1] = TheVal(project_key)}
        project == IF ~hasContext THEN None
                   ELSE IF known # {} THEN Some((CHOOSE kv \in known : TRUE)[2])
                   ELSE project_key
        branch == IF hasContext THEN TheVal(snapshot.context).branch ELSE None
        sorted == Sorted(snapshot.sessions)
    IN [chat_id |-> snapshot.chat_id, thread_id |-> snapshot.thread_id,
        project |-> project, branch |-> branch,
        topic_title |-> snapshot.topic_title,
        default_engine |-> snapshot.default_engine,
        sessions |-> [i \in 1..Len(sorted) |-> sorted[Len(sorted) + 1 - i]]]

\* snapshot_to_status; project_aliases is a dict, here a set of <<key, alias>>
snapshot_to_status(snapshot, project_aliases) ==
    LET hasContext == ~IsNone(snapshot.context)
        project_key == IF hasContext THEN Some(TheVal(snapshot.context).project)
                       ELSE None
        known == {kv \in project_aliases : hasContext /\ kv[1] = TheVal(project_key)}
        project == IF ~hasContext THEN None
                   ELSE IF known # {} THEN Some((CHOOSE kv \in known : TRUE)[2])
                   ELSE project_key
        branch == IF hasContext THEN TheVal(snapshot.context).branch ELSE None
    IN [chat_id |-> snapshot.chat_id, thread_id |-> snapshot.thread_id,
        project |-> project, branch |-> branch,
        topic_title |-> snapshot.topic_title,
        default_engine |-> snapshot.default_engine,
        sessions |-> Sorted(snapshot.sessions)]

\* ---- the state store (TopicStateStore): a set of snapshots, one per
\* (chat, thread)
StoreGetThread(st, chat, thread) ==
    LET hit == {s \in st : s.chat_id = chat /\ s.thread_id = thread}
    IN IF hit = {} THEN None ELSE Some(CHOOSE s \in hit : TRUE)
\* the threads find_thread_for_context may return: those bound to the context
StoreThreadsForContext(st, chat, context) ==
    {s.thread_id : s \in {x \in st : x.chat_id = chat /\ x.context = Some(context)}}
StoreSetContext(st, chat, thread, context, title) ==
    LET old == StoreGetThread(st, chat, thread)
    IN IF IsNone(old)
       THEN st \cup {TopicThreadSnapshot(chat, thread, Some(context), {},
                                         Some(title), None)}
       ELSE (st \ {TheVal(old)})
                \cup {[TheVal(old) EXCEPT !.context = Some(context),
                                          !.topic_title = Some(title)]}
StoreDeleteThread(st, chat, thread) ==
    {s \in st : ~(s.chat_id = chat /\ s.thread_id = thread)}


\* a caller with no call in progress
IdleCall ==
    [pc |-> "idle", chat_id |-> 0, project_key |-> "", project_alias |-> "",
     branch |-> None, bind_state |-> FALSE, title |-> <<>>,
     existing_thread_id |-> None, renamed |-> None, thread_id |-> None,
     created |-> FALSE, status |-> None,
     creates |-> 0, sets |-> 0, store0 |-> {}]
\* locals of a call: the parameters, title, existing_thread_id, thread_id,
\* created; status is the returned TopicStatus; renamed is what
\* edit_forum_topic returned.  History: creates and sets count the
\* create_forum_topic and set_context calls made, store0 is the store when the
\* call began.
Context(c) == RunContext(c.project_key, c.branch)

InitTopic ==
    /\ store = {}
    /\ topics = {}
    /\ nextThread = 1
    /\ call = [p \in Callers |-> IdleCall]
    /\ started = 0
    /\ prev = None

\* the locals of a call that has computed its context and title
NewCall(chat, key, alias, branch, bind) ==
    [IdleCall EXCEPT !.pc = "find", !.chat_id = chat,
                     !.project_key = key, !.project_alias = alias,
                     !.branch = branch, !.bind_state = bind,
                     !.title = build_topic_title(alias, branch),
                     !.store0 = store]

\* ensure_topic_thread is called: context and title are computed and the
\* call waits for find_thread_for_context
BeginCall(p, chat, key, alias, branch, bind) ==
    /\ call[p].pc = "idle"
    /\ started < MaxCalls
    /\ call' = [call EXCEPT ![p] = NewCall(chat, key, alias, branch, bind)]
    /\ started' = started + 1
    /\ UNCHANGED <<store, topics, nextThread, prev, inboxVars, auxVars>>

\* a call begins while no other call is in progress
BeginCallAlone(p, chat, key, alias, branch, bind) ==
    /\ \A q \in Callers : call[q].pc = "idle"
    /\ BeginCall(p, chat, key, alias, branch, bind)

\* existing_thread_id = await store.find_thread_for_context(chat_id, context)
FindThread(p) ==
    LET c == call[p]
        found == StoreThreadsForContext(store, c.chat_id, Context(c))
    IN /\ c.pc = "find"
       /\ \/ /\ found = {}
             /\ call' = [call EXCEPT ![p].existing_thread_id = None,
                                     ![p].created = FALSE,
                                     ![p].pc = "create"]
          \/ \E t \in found :
                call' = [call EXCEPT ![p].existing_thread_id = Some(t),
                                     ![p].created = FALSE,
                                     ![p].pc = "rename"]
       /\ UNCHANGED <<store, topics, nextThread, started, prev, inboxVars, auxVars>>

\* mutant: the binding is written after a rename whatever the persist flag
MutRenameTopicAlwaysBinds(p) ==
    LET c == call[p]
        t == TheVal(c.existing_thread_id)
        mine == {x \in topics : x.chat_id = c.chat_id /\ x.thread_id = t}
    IN /\ c.pc = "rename"
       /\ \/ /\ mine # {}
             /\ topics' = (topics \ mine)
                              \cup {[x EXCEPT !.name = c.title] : x \in mine}
             /\ call' = [call EXCEPT ![p].renamed = Some(TRUE),
                                     ![p].pc = "set_reuse"]
          \/ /\ topics' = topics
             /\ call' = [call EXCEPT ![p].renamed = Some(FALSE),
                                     ![p].pc = "delete"]
       /\ UNCHANGED <<store, nextThread, started, prev, inboxVars, auxVars>>

\* renamed = await bot.edit_forum_topic(...): the platform renames the topic
\* if it has it, or refuses (the topic was removed out of band, or the
\* request failed)
RenameTopic(p) ==
    LET c == call[p]
        t == TheVal(c.existing_thread_id)
        mine == {x \in topics : x.chat_id = c.chat_id /\ x.thread_id = t}
    IN /\ c.pc = "rename"
       /\ \/ /\ mine # {}
             /\ topics' = (topics \ mine)
                              \cup {[x EXCEPT !.name = c.title] : x \in mine}
             /\ call' = [call EXCEPT
                            ![p].renamed = Some(TRUE),
                            ![p].pc = IF c.bind_state THEN "set_reuse"
                                      ELSE "get_reuse"]
          \/ /\ topics' = topics
             /\ call' = [call EXCEPT ![p].renamed = Some(FALSE),
                                     ![p].pc = "delete"]
       /\ UNCHANGED <<store, nextThread, started, prev, inboxVars, auxVars>>

\* await store.set_context(chat_id, existing_thread_id, context, topic_title=title)
SetContextReuse(p) ==
    LET c == call[p]
    IN /\ c.pc = "set_reuse"
       /\ store' = StoreSetContext(store, c.chat_id, TheVal(c.existing_thread_id),
                                   Context(c), c.title)
       /\ call' = [call EXCEPT ![p].sets = c.sets + 1, ![p].pc = "get_reuse"]
       /\ UNCHANGED <<topics, nextThread, started, prev, inboxVars, auxVars>>

\* the status returned for a thread: from the store's snapshot, or from one
\* made of the call's own values when the store has none
StatusFor(c, thread) ==
    LET got == StoreGetThread(store, c.chat_id, thread)
        snapshot == IF IsNone(got)
                    THEN TopicThreadSnapshot(
                             c.chat_id, thread,
                             IF c.bind_state THEN Some(Context(c)) ELSE None,
                             {}, Some(c.title), None)
                    ELSE TheVal(got)
    IN snapshot_to_status(snapshot, {<<c.project_key, c.project_alias>>})

\* snapshot = await store.get_thread(...); return status, created (reuse)
ReturnReused(p) ==
    LET c == call[p]
    IN /\ c.pc = "get_reuse"
       /\ call' = [call EXCEPT
                      ![p].status = Some(StatusFor(c, TheVal(c.existing_thread_id))),
                      ![p].pc = "done"]
       /\ UNCHANGED <<store, topics, nextThread, started, prev, inboxVars, auxVars>>

\* mutant: the stale binding is left in the store
MutDeleteStaleSkips(p) ==
    LET c == call[p]
    IN /\ c.pc = "delete"
       /\ call' = [call EXCEPT ![p].pc = "create"]
       /\ UNCHANGED <<store, topics, nextThread, started, prev, inboxVars, auxVars>>

\* await store.delete_thread(chat_id, existing_thread_id)
DeleteStale(p) ==
    LET c == call[p]
    IN /\ c.pc = "delete"
       /\ store' = StoreDeleteThread(store, c.chat_id, TheVal(c.existing_thread_id))
       /\ call' = [call EXCEPT ![p].pc = "create"]
       /\ UNCHANGED <<topics, nextThread, started, prev, inboxVars, auxVars>>

\* mutant: a creation that fails is tried once more before the call raises
MutCreateTopicRetries(p) ==
    LET c == call[p]
    IN /\ c.pc = "create"
       /\ \/ /\ topics' = topics \cup {[chat_id |-> c.chat_id,
                                        thread_id |-> nextThread,
                                        name |-> c.title]}
             /\ nextThread' = nextThread + 1
             /\ \E tries \in {1, 2} :
                   call' = [call EXCEPT
                               ![p].creates = c.creates + tries,
                               ![p].thread_id = Some(nextThread),
                               ![p].created = TRUE,
                               ![p].pc = IF c.bind_state THEN "set_new"
                                         ELSE "get_new"]
          \/ /\ UNCHANGED <<topics, nextThread>>
             /\ call' = [call EXCEPT ![p].creates = c.creates + 2,
                                     ![p].pc = "raised"]
       /\ UNCHANGED <<store, started, prev, inboxVars, auxVars>>

\* mutant: when the creation fails the binding deleted before is put back
MutCreateTopicRestores(p) ==
    LET c == call[p]
    IN /\ c.pc = "create"
       /\ \/ /\ topics' = topics \cup {[chat_id |-> c.chat_id,
                                        thread_id |-> nextThread,
                                        name |-> c.title]}
             /\ nextThread' = nextThread + 1
             /\ store' = store
             /\ call' = [call EXCEPT
                            ![p].creates = c.creates + 1,
                            ![p].thread_id = Some(nextThread),
                            ![p].created = TRUE,
                            ![p].pc = IF c.bind_state THEN "set_new" ELSE "get_new"]
          \/ /\ UNCHANGED <<topics, nextThread>>
             /\ store' = IF IsNone(c.existing_thread_id) THEN store
                         ELSE StoreSetContext(store, c.chat_id,
                                              TheVal(c.existing_thread_id),
                                              Context(c), c.title)
             /\ call' = [call EXCEPT ![p].creates = c.creates + 1,
                                     ![p].pc = "raised"]
       /\ UNCHANGED <<started, prev, inboxVars, auxVars>>

\* mutant: the platform makes no second topic of a name, it returns the one
\* it has
MutCreateTopicReusesName(p) ==
    LET c == call[p]
        same == {x \in topics : x.chat_id = c.chat_id /\ x.name = c.title}
    IN /\ c.pc = "create"
       /\ \/ /\ same = {}
             /\ topics' = topics \cup {[chat_id |-> c.chat_id,
                                        thread_id |-> nextThread,
                                        name |-> c.title]}
             /\ nextThread' = nextThread + 1
             /\ call' = [call EXCEPT
                            ![p].creates = c.creates + 1,
                            ![p].thread_id = Some(nextThread),
                            ![p].created = TRUE,
                            ![p].pc = IF c.bind_state THEN "set_new" ELSE "get_new"]
          \/ /\ same # {}
             /\ UNCHANGED <<topics, nextThread>>
             /\ \E x \in same :
                   call' = [call EXCEPT
                               ![p].creates = c.creates + 1,
                               ![p].thread_id = Some(x.thread_id),
                               ![p].created = TRUE,
                               ![p].pc = IF c.bind_state THEN "set_new"
                                         ELSE "get_new"]
          \/ /\ UNCHANGED <<topics, nextThread>>
             /\ call' = [call EXCEPT ![p].creates = c.creates + 1,
                                     ![p].pc = "raised"]
       /\ UNCHANGED <<store, started, prev, inboxVars, auxVars>>

\* created_topic = await bot.create_forum_topic(chat_id, title): the platform
\* makes a topic with a new thread id, or returns nothing and the call raises
CreateTopic(p) ==
    LET c == call[p]
    IN /\ c.pc = "create"
       /\ \/ /\ topics' = topics \cup {[chat_id |-> c.chat_id,
                                        thread_id |-> nextThread,
                                        name |-> c.title]}
             /\ nextThread' = nextThread + 1
             /\ call' = [call EXCEPT
                            ![p].creates = c.creates + 1,
                            ![p].thread_id = Some(nextThread),
                            ![p].created = TRUE,
                            ![p].pc = IF c.bind_state THEN "set_new" ELSE "get_new"]
          \/ /\ UNCHANGED <<topics, nextThread>>
             /\ call' = [call EXCEPT ![p].creates = c.creates + 1,
                                     ![p].pc = "raised"]
       /\ UNCHANGED <<store, started, prev, inboxVars, auxVars>>

\* mutant: the binding of the new thread is not written
MutSetContextNewSkips(p) ==
    LET c == call[p]
    IN /\ c.pc = "set_new"
       /\ call' = [call EXCEPT ![p].sets = c.sets + 1, ![p].pc = "get_new"]
       /\ UNCHANGED <<store, topics, nextThread, started, prev, inboxVars, auxVars>>

\* await store.set_context(chat_id, thread_id, context, topic_title=title)
SetContextNew(p) ==
    LET c == call[p]
    IN /\ c.pc = "set_new"
       /\ store' = StoreSetContext(store, c.chat_id, TheVal(c.thread_id),
                                   Context(c), c.title)
       /\ call' = [call EXCEPT ![p].sets = c.sets + 1, ![p].pc = "get_new"]
       /\ UNCHANGED <<topics, nextThread, started, prev, inboxVars, auxVars>>

\* mutant: after a drift the status is that of the thread found first
MutReturnCreatedOldThread(p) ==
    LET c == call[p]
        thread == IF IsNone(c.existing_thread_id) THEN TheVal(c.thread_id)
                  ELSE TheVal(c.existing_thread_id)
    IN /\ c.pc = "get_new"
       /\ call' = [call EXCEPT ![p].status = Some(StatusFor(c, thread)),
                               ![p].pc = "done"]
       /\ UNCHANGED <<store, topics, nextThread, started, prev, inboxVars, auxVars>>

\* mutant: without a snapshot in the store no status is made
MutReturnCreatedNoFallback(p) ==
    LET c == call[p]
        got == StoreGetThread(store, c.chat_id, TheVal(c.thread_id))
    IN /\ c.pc = "get_new"
       /\ call' = [call EXCEPT
                      ![p].status = IF IsNone(got) THEN None
                                    ELSE Some(StatusFor(c, TheVal(c.thread_id))),
                      ![p].pc = "done"]
       /\ UNCHANGED <<store, topics, nextThread, started, prev, inboxVars, auxVars>>

\* snapshot = await store.get_thread(...); return status, created (create)
ReturnCreated(p) ==
    LET c == call[p]
    IN /\ c.pc = "get_new"
       /\ call' = [call EXCEPT
                      ![p].status = Some(StatusFor(c, TheVal(c.thread_id))),
                      ![p].pc = "done"]
       /\ UNCHANGED <<store, topics, nextThread, started, prev, inboxVars, auxVars>>

\* what is remembered of a call that ended: its inputs and its outcome
CallSummary(c) ==
    [pc |-> c.pc, chat_id |-> c.chat_id, project_key |-> c.project_key,
     project_alias |-> c.project_alias, branch |-> c.branch,
     bind_state |-> c.bind_state, renamed |-> c.renamed,
     created |-> c.created,
     thread_id |-> IF IsNone(c.status) THEN None
                   ELSE Some(TheVal(c.status).thread_id)]

\* the caller has the result, or the error, of its call
EndCall(p) ==
    /\ call[p].pc \in {"done", "raised"}
    /\ prev' = Some(CallSummary(call[p]))
    /\ call' = [call EXCEPT ![p] = IdleCall]
    /\ UNCHANGED <<store, topics, nextThread, started, inboxVars, auxVars>>

CallSteps(p) ==
    \/ FindThread(p)
    \/ RenameTopic(p)
    \/ SetContextReuse(p)
    \/ ReturnReused(p)
    \/ DeleteStale(p)
    \/ CreateTopic(p)
    \/ SetContextNew(p)
    \/ ReturnCreated(p)
    \/ EndCall(p)

\* calls made one after the other, by one task
NextTopic ==
    \/ \E p \in {1}, chat \in Chats, key \in ProjectKeys, branch \in BranchChoices, bind \in BOOLEAN :
          \E alias \in AliasChoices(key) : BeginCallAlone(p, chat, key, alias, branch, bind)
    \/ \E p \in {1} : CallSteps(p)

\* calls for one project of one chat, one after the other, the branch being
\* absent, empty or set
TitleBranches == BranchChoices \cup {Some(<<>>)}
NextTitle ==
    \/ \E alias \in AliasChoices("demo"), branch \in TitleBranches, bind \in BOOLEAN :
          BeginCallAlone(1, 1, "demo", alias, branch, bind)
    \/ CallSteps(1)

\* calls for one context of one chat made by tasks that run together, one
\* call each: each await of a call is a point where another call may run
RaceBranch == Some(<<"d", "e", "v">>)
NextRace ==
    \/ \E p \in Callers, alias \in AliasChoices("demo"), bind \in BOOLEAN :
          BeginCall(p, 1, "demo", alias, RaceBranch, bind)
    \/ \E p \in Callers :
          \/ FindThread(p)
          \/ RenameTopic(p)
          \/ SetContextReuse(p)
          \/ ReturnReused(p)
          \/ DeleteStale(p)
          \/ CreateTopic(p)
          \/ SetContextNew(p)
          \/ ReturnCreated(p)

\* ------------------------------------------------------------ the appender
\* calls of append_swarm_envelope made
MaxAppends == 3

\* the queue's directory and file: nothing is there
NoQueue == [dir |-> FALSE, exists |-> FALSE, bytes |-> <<>>]

\* mutant: the file is opened for writing, not for appending
MutAppendTruncates(fs, envelope) ==
    LET line == Append(Encode(envelope), NL)
    IN [fs |-> [dir |-> TRUE, exists |-> TRUE, bytes |-> line],
        mode |-> "wb", writes |-> <<line>>]

\* append_swarm_envelope: the directory is made if missing, the file is
\* opened for appending (and made if missing), and the encoded envelope and
\* the delimiter are written by one write and flushed
append_swarm_envelope(fs, envelope) ==
    LET line == Append(Encode(envelope), NL)
    IN [fs |-> [dir |-> TRUE, exists |-> TRUE, bytes |-> fs.bytes \o line],
        mode |-> "ab", writes |-> <<line>>]

IdleDisk ==
    [pc |-> "idle", fs |-> NoQueue, n |-> 0, before |-> NoQueue,
     envelope |-> None, mode |-> "", writes |-> <<>>]

\* a producer appends an envelope
AppendEnvelope(envelope) ==
    /\ disk.n < MaxAppends
    /\ LET r == append_swarm_envelope(disk.fs, envelope)
       IN disk' = [pc |-> "appended", fs |-> r.fs, n |-> disk.n + 1,
                   before |-> disk.fs, envelope |-> Some(envelope),
                   mode |-> r.mode, writes |-> r.writes]
    /\ UNCHANGED <<inboxVars, topicVars, cmd, codec, parsed, projected, moreVars>>

\* the queue's directory is removed, the file with it
RemoveQueueDir ==
    /\ disk.fs.dir
    /\ disk.pc = "appended"
    /\ disk' = [disk EXCEPT !.pc = "removed", !.fs = NoQueue]
    /\ UNCHANGED <<inboxVars, topicVars, cmd, codec, parsed, projected, moreVars>>

NextAppend ==
    \/ \E envelope \in Envelopes : AppendEnvelope(envelope)
    \/ RemoveQueueDir

\* --------------------------------------------------- the codec on its own
\* the envelopes a producer can make (every field of its type, the intent one
\* of the two)
EnvelopeSpace ==
    {SwarmEnvelope(ver, eid, intent, chat, thread, text, agent, at) :
        ver \in {0, 1, 12}, eid \in {"", "a"}, intent \in SwarmIntent,
        chat \in {-120, -7, 0, 123}, thread \in {None, Some(0), Some(19)},
        text \in {<<>>, <<" ">>, <<"h", "i">>},
        agent \in {None, Some("manager")}, at \in {None, Some("t0")}}

IdleCodec == [pc |-> "idle", env |-> EnvA, raw |-> <<>>, back |-> [ok |-> FALSE]]

\* msgspec.json.encode(envelope), as append_swarm_envelope calls it
EncodeEnvelope ==
    /\ codec.pc = "made"
    /\ codec' = [codec EXCEPT !.pc = "encoded", !.raw = Encode(codec.env)]
    /\ UNCHANGED <<inboxVars, topicVars, cmd, disk, parsed, projected, moreVars>>

\* msgspec.json.decode(raw_line, type=SwarmEnvelope), as the tailer calls it
DecodeRecord ==
    /\ codec.pc = "encoded"
    /\ codec' = [codec EXCEPT !.pc = "decoded", !.back = Decode(codec.raw)]
    /\ UNCHANGED <<inboxVars, topicVars, cmd, disk, parsed, projected, moreVars>>

NextCodec == EncodeEnvelope \/ DecodeRecord

\* ------------------------------------------ the command line: topics ensure
\* commands run
MaxCommands == 2

\* str.lower() and str.strip() on the characters of an option's value
LowerChar(ch) ==
    CASE ch = "A" -> "a" [] ch = "D" -> "d" [] ch = "E" -> "e"
      [] ch = "I" -> "i" [] ch = "M" -> "m" [] ch = "O" -> "o"
      [] ch = "P" -> "p" [] OTHER -> ch
Lower(s) == [i \in 1..Len(s) |-> LowerChar(s[i])]
RECURSIVE LStripChars(_)
LStripChars(s) ==
    IF Len(s) > 0 /\ s[1] \in WhiteChars THEN LStripChars(Tail(s)) ELSE s
RECURSIVE RStripChars(_)
RStripChars(s) ==
    IF Len(s) > 0 /\ s[Len(s)] \in WhiteChars
    THEN RStripChars(SubSeq(s, 1, Len(s) - 1)) ELSE s
StripChars(s) == LStripChars(RStripChars(s))

\* normalize_branch: None, or the stripped name, or None if that is empty
normalize_branch(value) ==
    IF IsNone(value) THEN None
    ELSE LET stripped == StripChars(TheVal(value))
         IN IF stripped = <<>> THEN None ELSE Some(stripped)

\* the project registry (projects.projects): the characters of each key, its
\* alias and its chat id; the chat id of the settings
KeyChars(key) == IF key = "demo" THEN <<"d", "e", "m", "o">> ELSE <<"a", "p", "i">>
ProjectAlias(key) == IF key = "demo" THEN "Demo" ELSE "Api"
ProjectChatId(key) == IF key = "demo" THEN Some(2) ELSE None
MainChatId == 1

\* _resolve_project: the key and alias, or the ConfigError
ResolveProject(project) ==
    LET key == Lower(StripChars(project))
        cfg == {k \in ProjectKeys : KeyChars(k) = key}
    IN IF cfg = {} THEN [ok |-> FALSE, key |-> "", alias |-> ""]
       ELSE LET k == CHOOSE k \in cfg : TRUE
            IN [ok |-> TRUE, key |-> k, alias |-> ProjectAlias(k)]

\* _resolve_target_chat_id: the option, or the project's chat, or the main one
ResolveTargetChatId(project_key, chat_id) ==
    IF ~IsNone(chat_id) THEN TheVal(chat_id)
    ELSE IF ~IsNone(ProjectChatId(project_key)) THEN TheVal(ProjectChatId(project_key))
    ELSE MainChatId

\* the values of the options
ProjectOptions ==
    {<<"d", "e", "m", "o">>, <<" ", "D", "e", "m", "o", " ">>, <<"A", "P", "I">>,
     <<"n", "o", "p", "e">>, <<" ">>}
BranchOptions == {None, Some(<<"d", "e", "v">>), Some(<<" ", "d", "e", "v", "\t">>), Some(<<" ">>)}
ChatOptions == {None, Some(1)}

\* no command has run
IdleCmd ==
    [pc |-> "idle", n |-> 0, project |-> <<>>, error |-> None, payload |-> None,
     store0 |-> {}, topics0 |-> {}, started0 |-> 0]

\* mutant: a project that is not registered is used as it is given, and the
\* registry is consulted only when the call is over
MutTopicsEnsureResolvesLate(project, branch, chat_id, bind_state, valid_config) ==
    /\ cmd.pc # "running"
    /\ cmd.n < MaxCommands
    /\ \A q \in Callers : call[q].pc = "idle"
    /\ started < MaxCalls
    /\ valid_config
    /\ LET r == ResolveProject(project)
           key == IF r.ok THEN r.key ELSE "unknown"
           alias == IF r.ok THEN r.alias ELSE "unknown"
       IN /\ cmd' = [IdleCmd EXCEPT !.pc = "running", !.n = cmd.n + 1,
                                    !.project = project, !.store0 = store,
                                    !.topics0 = topics, !.started0 = started]
          /\ call' = [call EXCEPT ![1] =
                         NewCall(ResolveTargetChatId(key, chat_id), key, alias,
                                 normalize_branch(branch), bind_state)]
          /\ started' = started + 1
          /\ UNCHANGED <<store, topics, nextThread, prev>>
    /\ UNCHANGED <<inboxVars, disk, codec, parsed, projected, moreVars>>

\* topics ensure, up to the call of ensure_topic_thread: the settings and the
\* registry are loaded and the project is resolved, and either fails with a
\* ConfigError that ends the command; then the chat and the branch are
\* resolved and the call begins
TopicsEnsure(project, branch, chat_id, bind_state, valid_config) ==
    /\ cmd.pc # "running"
    /\ cmd.n < MaxCommands
    /\ \A q \in Callers : call[q].pc = "idle"
    /\ started < MaxCalls
    /\ LET r == ResolveProject(project)
           begun == [IdleCmd EXCEPT !.n = cmd.n + 1, !.project = project,
                                    !.store0 = store, !.topics0 = topics,
                                    !.started0 = started]
       IN IF ~valid_config
          THEN /\ cmd' = [begun EXCEPT !.pc = "config_error",
                                       !.error = Some("settings")]
               /\ UNCHANGED topicVars
          ELSE IF ~r.ok
          THEN /\ cmd' = [begun EXCEPT !.pc = "config_error",
                                       !.error = Some("unknown project")]
               /\ UNCHANGED topicVars
          ELSE /\ cmd' = [begun EXCEPT !.pc = "running"]
               /\ call' = [call EXCEPT ![1] =
                              NewCall(ResolveTargetChatId(r.key, chat_id),
                                      r.key, r.alias,
                                      normalize_branch(branch), bind_state)]
               /\ started' = started + 1
               /\ UNCHANGED <<store, topics, nextThread, prev>>
    /\ UNCHANGED <<inboxVars, disk, codec, parsed, projected, moreVars>>

\* topics ensure, after the call: the result is printed, or the call's
\* RuntimeError ends the command as a ConfigError
TopicsEnsureReturn ==
    /\ cmd.pc = "running"
    /\ call[1].pc \in {"done", "raised"}
    /\ cmd' = IF call[1].pc = "done"
              THEN [cmd EXCEPT !.pc = "printed",
                               !.payload = Some([created |-> call[1].created,
                                                 status |-> TheVal(call[1].status)])]
              ELSE [cmd EXCEPT !.pc = "config_error", !.error = Some("runtime")]
    /\ prev' = Some(CallSummary(call[1]))
    /\ call' = [call EXCEPT ![1] = IdleCall]
    /\ UNCHANGED <<store, topics, nextThread, started, inboxVars, disk, codec,
                   parsed, projected, moreVars>>

NextCli ==
    \/ \E project \in ProjectOptions, branch \in BranchOptions, chat_id \in ChatOptions :
          \E bind_state \in BOOLEAN, valid_config \in BOOLEAN :
             TopicsEnsure(project, branch, chat_id, bind_state, valid_config)
    \/ FindThread(1)
    \/ RenameTopic(1)
    \/ SetContextReuse(1)
    \/ ReturnReused(1)
    \/ DeleteStale(1)
    \/ CreateTopic(1)
    \/ SetContextNew(1)
    \/ ReturnCreated(1)
    \/ TopicsEnsureReturn

\* ------------------------------------------------- the ingress configuration
(* A value of the plugins table: t is its Python type, n its number and s  *)
(* its characters.  A float is a number of hundredths; "nan" and "inf" are  *)
(* the floats that are no number and the infinities (n is the sign).       *)
Val(t, n, s) == [t |-> t, n |-> n, s |-> s]
BoolVal(b) == Val("bool", IF b THEN 1 ELSE 0, <<>>)
IntVal(n) == Val("int", n, <<>>)
FloatVal(hundredths) == Val("float", hundredths, <<>>)
NaN == Val("nan", 0, <<>>)
Inf(sign) == Val("inf", sign, <<>>)
StrVal(chars) == Val("str", 0, chars)

DEFAULT_INBOX_FILENAME == <<"telegram_swarm_inbox.jsonl">>
DEFAULT_POLL_INTERVAL_S == FloatVal(35)

\* a path: where it starts and the characters after that
Path(anchor, rel) == [anchor |-> anchor, rel |-> rel]
NoPath == Path("", <<>>)

\* float(value) of a bool, an int or a float
ToFloat(v) ==
    IF v.t \in {"bool", "int"} THEN FloatVal(100 * v.n) ELSE v
\* poll_interval <= 0: false for the float that is no number
LeqZero(f) ==
    CASE f.t = "float" -> f.n <= 0
      [] f.t = "inf" -> f.n < 0
      [] OTHER -> FALSE
\* poll_interval > 0
GtZero(f) ==
    CASE f.t = "float" -> f.n > 0
      [] f.t = "inf" -> f.n > 0
      [] OTHER -> FALSE

\* _resolve_inbox_path: the path, or the ConfigError
ResolveInboxPath(value) ==
    IF IsNone(value)
    THEN [ok |-> TRUE, path |-> Path("config_dir", DEFAULT_INBOX_FILENAME)]
    ELSE LET v == TheVal(value)
         IN IF v.t # "str" \/ StripChars(v.s) = <<>>
            THEN [ok |-> FALSE, path |-> NoPath]
            ELSE IF v.s[1] = "~"
            THEN [ok |-> TRUE, path |-> Path("home", Tail(v.s))]
            ELSE IF v.s[1] = "/"
            THEN [ok |-> TRUE, path |-> Path("root", Tail(v.s))]
            ELSE [ok |-> TRUE, path |-> Path("config_dir", v.s)]

\* _resolve_poll_interval: the interval, or the ConfigError; a bool is an int
ResolvePollInterval(value) ==
    IF IsNone(value) THEN [ok |-> TRUE, interval |-> DEFAULT_POLL_INTERVAL_S]
    ELSE LET v == TheVal(value)
         IN IF v.t \notin {"bool", "int", "float", "nan", "inf"}
            THEN [ok |-> FALSE, interval |-> NaN]
            ELSE IF LeqZero(ToFloat(v))
            THEN [ok |-> FALSE, interval |-> NaN]
            ELSE [ok |-> TRUE, interval |-> ToFloat(v)]

\* what parsing gives: no configuration, a SwarmIngressConfig, or a
\* ConfigError that names an option
NoConfig == [kind |-> "none", option |-> "", inbox_path |-> NoPath, poll_interval_s |-> NaN]
SwarmIngressConfig(inbox_path, poll_interval_s) ==
    [kind |-> "config", option |-> "", inbox_path |-> inbox_path,
     poll_interval_s |-> poll_interval_s]
ConfigError(option) ==
    [kind |-> "error", option |-> option, inbox_path |-> NoPath, poll_interval_s |-> NaN]

\* a swarm table: each option is absent or has a value
SwarmTable(enabled, inbox_path, poll_interval_s) ==
    [enabled |-> enabled, inbox_path |-> inbox_path, poll_interval_s |-> poll_interval_s]

\* mutant: the enabled option is taken for its truth value, whatever its type
MutParseTruthyEnabled(raw) ==
    IF IsNone(raw) THEN NoConfig
    ELSE LET table == TheVal(raw)
             enabled == IF IsNone(table.enabled) THEN BoolVal(FALSE)
                        ELSE TheVal(table.enabled)
             inbox_path == ResolveInboxPath(table.inbox_path)
             poll_interval_s == ResolvePollInterval(table.poll_interval_s)
         IN IF enabled.n = 0 /\ enabled.s = <<>> THEN NoConfig
            ELSE IF ~inbox_path.ok THEN ConfigError("inbox_path")
            ELSE IF ~poll_interval_s.ok THEN ConfigError("poll_interval_s")
            ELSE SwarmIngressConfig(inbox_path.path, poll_interval_s.interval)

\* parse_swarm_ingress_config
parse_swarm_ingress_config(raw) ==
    IF IsNone(raw) THEN NoConfig
    ELSE LET table == TheVal(raw)
             enabled == IF IsNone(table.enabled) THEN BoolVal(FALSE)
                        ELSE TheVal(table.enabled)
             inbox_path == ResolveInboxPath(table.inbox_path)
             poll_interval_s == ResolvePollInterval(table.poll_interval_s)
         IN IF enabled.t # "bool" THEN ConfigError("enabled")
            ELSE IF enabled.n = 0 THEN NoConfig
            ELSE IF ~inbox_path.ok THEN ConfigError("inbox_path")
            ELSE IF ~poll_interval_s.ok THEN ConfigError("poll_interval_s")
            ELSE SwarmIngressConfig(inbox_path.path, poll_interval_s.interval)

\* the plugins tables: the number of plugins other than swarm configured, and
\* the swarm entry: absent, a table, or a value that is no table
Plugins(others, swarm) == [others |-> others, swarm |-> swarm]
SwarmEntry(is_table, table) == [is_table |-> is_table, table |-> table]

\* resolve_swarm_ingress_config_from_plugins
resolve_swarm_ingress_config_from_plugins(plugin_configs) ==
    IF IsNone(plugin_configs) THEN NoConfig
    ELSE LET plugins == TheVal(plugin_configs)
         IN IF plugins.others = 0 /\ IsNone(plugins.swarm) THEN NoConfig
            ELSE IF IsNone(plugins.swarm) THEN NoConfig
            ELSE IF ~TheVal(plugins.swarm).is_table THEN ConfigError("swarm")
            ELSE parse_swarm_ingress_config(Some(TheVal(plugins.swarm).table))

\* the values an option is given
EnabledChoices == {None, Some(BoolVal(TRUE)), Some(BoolVal(FALSE)), Some(IntVal(1)), Some(IntVal(0)), Some(StrVal(<<"t", "r", "u", "e">>))}
InboxPathChoices == {None, Some(StrVal(<<"q">>)), Some(StrVal(<<"/", "q">>)), Some(StrVal(<<"~", "/", "q">>)), Some(StrVal(<<" ">>)), Some(IntVal(5))}
PollIntervalChoices ==
    {None, Some(IntVal(-1)), Some(IntVal(0)), Some(IntVal(2)), Some(FloatVal(-50)),
     Some(FloatVal(0)), Some(FloatVal(20)), Some(NaN), Some(Inf(1)), Some(Inf(-1)),
     Some(BoolVal(TRUE)), Some(BoolVal(FALSE)), Some(StrVal(<<"2">>))}
SwarmTables ==
    {SwarmTable(e, i, p) :
        e \in EnabledChoices, i \in InboxPathChoices, p \in PollIntervalChoices}
PluginsChoices ==
    {None, Some(Plugins(0, None)), Some(Plugins(1, None)),
     Some(Plugins(0, Some(SwarmEntry(FALSE, SwarmTable(None, None, None)))))}
        \cup {Some(Plugins(n, Some(SwarmEntry(TRUE, t)))) : n \in {0, 1}, t \in SwarmTables}

IdleParsed == [pc |-> "idle", plugins |-> None, out |-> NoConfig]

\* the command line resolves the ingress configuration of the plugins tables
ResolveIngressConfig ==
    /\ parsed.pc = "given"
    /\ parsed' = [parsed EXCEPT
                     !.pc = "resolved",
                     !.out = resolve_swarm_ingress_config_from_plugins(parsed.plugins)]
    /\ UNCHANGED <<inboxVars, topicVars, cmd, disk, codec, projected, moreVars>>

NextConfig == ResolveIngressConfig

\* ------------------------------------------------ the status of a snapshot
\* the snapshots and alias tables given to snapshot_to_status
SnapshotContexts ==
    {None} \cup {Some(RunContext(k, b)) : k \in ProjectKeys \cup {"ghost"}, b \in BranchChoices}
SnapshotTitles == {None, Some(build_topic_title("Demo", None))}
SnapshotEngines == {None, Some("codex")}
SnapshotChoices ==
    {TopicThreadSnapshot(c, t, x, s, title, e) :
        c \in Chats, t \in {5, 6}, x \in SnapshotContexts,
        s \in SUBSET {SessionOrder[i] : i \in 1..Len(SessionOrder)},
        title \in SnapshotTitles, e \in SnapshotEngines}
AliasTables ==
    {{}, {<<"demo", "Demo">>}, {<<"demo", "Demo">>, <<"api", "Api">>}}

IdleProjected ==
    [pc |-> "idle", snapshot |-> TopicThreadSnapshot(1, 5, None, {}, None, None),
     project_aliases |-> {},
     status |-> snapshot_to_status(TopicThreadSnapshot(1, 5, None, {}, None, None), {})]

\* status = snapshot_to_status(snapshot, project_aliases=...)
SnapshotToStatus ==
    /\ projected.pc = "given"
    /\ projected' = [projected EXCEPT
                        !.pc = "done",
                        !.status = snapshot_to_status(projected.snapshot,
                                                      projected.project_aliases)]
    /\ UNCHANGED <<inboxVars, topicVars, cmd, disk, codec, parsed, moreVars>>

NextStatus == SnapshotToStatus

\* ----------------------------------------------------------- the worktrees
\* branch names are the characters of the name
BrMain == <<"m", "a", "i", "n">>
BrMaster == <<"m", "a", "s", "t", "e", "r">>
BrDev == <<"d", "e", "v">>
BrFeat == <<"f", "t">>
MAINLINE_ROOT_BRANCHES == {BrMain, BrMaster}

\* Path(cleaned).parts: the pieces between slashes, without the empty ones
\* and the "." ones
RECURSIVE SplitOn(_, _)
SplitOn(s, sep) ==
    IF s = <<>> THEN << <<>> >>
    ELSE LET rest == SplitOn(Tail(s), sep)
         IN IF Head(s) = sep THEN << <<>> >> \o rest
            ELSE << <<Head(s)>> \o Head(rest) >> \o Tail(rest)
PathParts(s) == SelectSeq(SplitOn(s, "/"), LAMBDA p : p # <<>> /\ p # <<".">>)

\* the directories: the project root (project.path), and the worktree of a
\* branch (project.worktrees_root / branch)
Dir(at, branch) == [at |-> at, branch |-> branch]
NoDir == Dir("", <<>>)
ProjectRoot == Dir("root", <<>>)
WorktreePath(branch) == Dir("worktrees", branch)

\* what a call has done outside: the git commands run, in order, and the
\* directories made
NoEffects == [git |-> <<>>, mkdirs |-> 0]
Git(fx, command) == [fx EXCEPT !.git = Append(@, command)]
Mkdir(fx) == [fx EXCEPT !.mkdirs = @ + 1]

\* how a call ends: with no path, with a path, or with a WorktreeError
ReturnedNone(fx) == [kind |-> "none", msg |-> "", path |-> NoDir, fx |-> fx]
Returned(path, fx) == [kind |-> "path", msg |-> "", path |-> path, fx |-> fx]
WorktreeError(msg, fx) == [kind |-> "error", msg |-> msg, path |-> NoDir, fx |-> fx]

\* a str | None that is neither None nor empty
Truthy(o) == ~IsNone(o) /\ TheVal(o) # <<>>

\* mutant: a ".." component is let through
MutSanitizeAllowsDotDot(branch) ==
    LET cleaned == StripChars(branch)
    IN IF cleaned = <<>>
       THEN [ok |-> FALSE, msg |-> "branch name cannot be empty", cleaned |-> <<>>]
       ELSE IF cleaned[1] = "/"
       THEN [ok |-> FALSE, msg |-> "branch name cannot start with '/'", cleaned |-> <<>>]
       ELSE [ok |-> TRUE, msg |-> "", cleaned |-> cleaned]

\* _sanitize_branch: the cleaned name, or the WorktreeError
SanitizeBranch(branch) ==
    LET cleaned == StripChars(branch)
    IN IF cleaned = <<>>
       THEN [ok |-> FALSE, msg |-> "branch name cannot be empty", cleaned |-> <<>>]
       ELSE IF cleaned[1] = "/"
       THEN [ok |-> FALSE, msg |-> "branch name cannot start with '/'", cleaned |-> <<>>]
       ELSE IF \E i \in 1..Len(PathParts(cleaned)) : PathParts(cleaned)[i] = <<".", ".">>
       THEN [ok |-> FALSE, msg |-> "branch name cannot contain '..'", cleaned |-> <<>>]
       ELSE [ok |-> TRUE, msg |-> "", cleaned |-> cleaned]

\* project.worktree_base or resolve_default_base(root): the second is asked
\* of git only when the first is unset or empty
BaseRef(repo, fx) ==
    IF Truthy(repo.worktree_base) THEN [raw |-> repo.worktree_base, fx |-> fx]
    ELSE [raw |-> repo.default_base, fx |-> Git(fx, "resolve_default_base")]

\* _project_base_branch
ProjectBaseBranch(repo, fx) ==
    LET b == BaseRef(repo, fx)
    IN IF ~Truthy(b.raw) THEN [ok |-> TRUE, msg |-> "", base |-> None, fx |-> b.fx]
       ELSE LET s == SanitizeBranch(TheVal(b.raw))
            IN IF s.ok
               THEN [ok |-> TRUE, msg |-> "", base |-> Some(s.cleaned), fx |-> b.fx]
               ELSE [ok |-> FALSE, msg |-> s.msg, base |-> None, fx |-> b.fx]

\* _is_mainline_branch, _root_reserved_branches
IsMainlineBranch(branch) == branch \in MAINLINE_ROOT_BRANCHES
RootReservedBranches(base_branch) ==
    MAINLINE_ROOT_BRANCHES \cup (IF IsNone(base_branch) THEN {} ELSE {TheVal(base_branch)})

\* _git_worktree_add: git may be missing, or refuse
GitWorktreeAdd(repo, base_ref, create_branch, fx) ==
    IF create_branch /\ ~Truthy(base_ref)
    THEN [ok |-> FALSE, msg |-> "missing base ref for worktree creation", fx |-> fx]
    ELSE LET ran == Git(fx, "worktree add")
         IN CASE repo.add = "nogit" ->
                    [ok |-> FALSE, msg |-> "git not available on PATH", fx |-> ran]
              [] repo.add = "fail" ->
                    [ok |-> FALSE, msg |-> "git worktree add failed", fx |-> ran]
              [] OTHER -> [ok |-> TRUE, msg |-> "", fx |-> ran]
AfterAdd(added, path) ==
    IF added.ok THEN Returned(path, added.fx) ELSE WorktreeError(added.msg, added.fx)

\* ensure_worktree
ensure_worktree(repo, branch, fx) ==
    IF ~repo.root_exists THEN WorktreeError("project path not found", fx)
    ELSE LET s == SanitizeBranch(branch)
             path == WorktreePath(s.cleaned)
         IN IF ~s.ok THEN WorktreeError(s.msg, fx)
            ELSE IF repo.dir = "escapes"
            THEN WorktreeError("branch path escapes the worktrees directory", fx)
            ELSE IF repo.dir = "plain"
            THEN WorktreeError("exists but is not a git worktree", Git(fx, "git_is_worktree"))
            ELSE IF repo.dir = "worktree"
            THEN Returned(path, Git(fx, "git_is_worktree"))
            ELSE LET heads == Git(Mkdir(fx), "show-ref heads")
                     remotes == Git(heads, "show-ref remotes")
                     b == BaseRef(repo, remotes)
                 IN IF repo.ref = "local"
                    THEN AfterAdd(GitWorktreeAdd(repo, None, FALSE, heads), path)
                    ELSE IF repo.ref = "remote"
                    THEN AfterAdd(GitWorktreeAdd(
                             repo, Some(<<"origin", "/">> \o s.cleaned), TRUE, remotes), path)
                    ELSE IF ~Truthy(b.raw)
                    THEN WorktreeError("cannot determine base branch for new worktree", b.fx)
                    ELSE AfterAdd(GitWorktreeAdd(repo, b.raw, TRUE, b.fx), path)

\* a run context; the registry has the one project, whose repository is repo
ProjectsRegistry == {"z80"}
WorktreeContext(project, branch) == [project |-> project, branch |-> branch]

\* mutant: a branch the root is checked out on resolves to the root, reserved
\* or not
MutResolveRootWhenCheckedOut(context, projects, repo) ==
    IF IsNone(context) \/ IsNone(TheVal(context).project) THEN ReturnedNone(NoEffects)
    ELSE IF TheVal(TheVal(context).project) \notin projects
    THEN WorktreeError("unknown project", NoEffects)
    ELSE IF IsNone(TheVal(context).branch) THEN Returned(ProjectRoot, NoEffects)
    ELSE LET s == SanitizeBranch(TheVal(TheVal(context).branch))
             b == ProjectBaseBranch(repo, NoEffects)
             asked == Git(b.fx, "branch --show-current")
         IN IF ~s.ok THEN WorktreeError(s.msg, NoEffects)
            ELSE IF ~b.ok THEN WorktreeError(b.msg, b.fx)
            ELSE IF repo.current = Some(s.cleaned) THEN Returned(ProjectRoot, asked)
            ELSE IF s.cleaned \in RootReservedBranches(b.base)
            THEN IF IsNone(repo.current)
                 THEN WorktreeError("cannot determine current branch for project root", asked)
                 ELSE IF TheVal(repo.current) # s.cleaned
                         /\ ~(IsMainlineBranch(s.cleaned)
                                 /\ IsMainlineBranch(TheVal(repo.current)))
                 THEN WorktreeError("project root is on another branch", asked)
                 ELSE Returned(ProjectRoot, asked)
            ELSE ensure_worktree(repo, s.cleaned, b.fx)

\* mutant: a reserved branch resolves to the root whatever the root is on
MutResolveReservedUnchecked(context, projects, repo) ==
    IF IsNone(context) \/ IsNone(TheVal(context).project) THEN ReturnedNone(NoEffects)
    ELSE IF TheVal(TheVal(context).project) \notin projects
    THEN WorktreeError("unknown project", NoEffects)
    ELSE IF IsNone(TheVal(context).branch) THEN Returned(ProjectRoot, NoEffects)
    ELSE LET s == SanitizeBranch(TheVal(TheVal(context).branch))
             b == ProjectBaseBranch(repo, NoEffects)
             asked == Git(b.fx, "branch --show-current")
         IN IF ~s.ok THEN WorktreeError(s.msg, NoEffects)
            ELSE IF ~b.ok THEN WorktreeError(b.msg, b.fx)
            ELSE IF s.cleaned \in RootReservedBranches(b.base)
            THEN IF IsNone(repo.current)
                 THEN WorktreeError("cannot determine current branch for project root", asked)
                 ELSE Returned(ProjectRoot, asked)
            ELSE ensure_worktree(repo, s.cleaned, b.fx)

\* resolve_run_cwd
resolve_run_cwd(context, projects, repo) ==
    IF IsNone(context) \/ IsNone(TheVal(context).project) THEN ReturnedNone(NoEffects)
    ELSE IF TheVal(TheVal(context).project) \notin projects
    THEN WorktreeError("unknown project", NoEffects)
    ELSE IF IsNone(TheVal(context).branch) THEN Returned(ProjectRoot, NoEffects)
    ELSE LET s == SanitizeBranch(TheVal(TheVal(context).branch))
             b == ProjectBaseBranch(repo, NoEffects)
             asked == Git(b.fx, "branch --show-current")
         IN IF ~s.ok THEN WorktreeError(s.msg, NoEffects)
            ELSE IF ~b.ok THEN WorktreeError(b.msg, b.fx)
            ELSE IF s.cleaned \in RootReservedBranches(b.base)
            THEN IF IsNone(repo.current)
                 THEN WorktreeError("cannot determine current branch for project root", asked)
                 ELSE IF TheVal(repo.current) # s.cleaned
                         /\ ~(IsMainlineBranch(s.cleaned)
                                 /\ IsMainlineBranch(TheVal(repo.current)))
                 THEN WorktreeError("project root is on another branch", asked)
                 ELSE Returned(ProjectRoot, asked)
            ELSE ensure_worktree(repo, s.cleaned, b.fx)

\* the repository a call meets: whether the root exists, the branch git
\* says the root is on (None when it cannot say, empty on a detached HEAD),
\* the configured base (which may be unset, empty or blank) and the default
\* base, what is at the worktree's path
\* (nothing, a plain directory, a worktree, a link out of the worktrees
\* directory), where the branch is known, and how git worktree add goes
Repo(root_exists, current, worktree_base, default_base, dir, ref, add) ==
    [root_exists |-> root_exists, current |-> current, worktree_base |-> worktree_base,
     default_base |-> default_base, dir |-> dir, ref |-> ref, add |-> add]
RepoChoices ==
    {Repo(x, c, w, d, p, r, a) :
        x \in BOOLEAN,
        c \in {None, Some(<<>>), Some(BrMain), Some(BrMaster), Some(BrDev), Some(BrFeat)},
        w \in {None, Some(<<>>), Some(<<" ">>), Some(BrDev)},
        d \in {None, Some(BrMain)},
        p \in {"absent", "plain", "worktree", "escapes"},
        r \in {"local", "remote", "none"},
        a \in {"ok", "fail", "nogit"}}
BranchNames ==
    {<<>>, <<" ">>, BrMain, <<" ">> \o BrMain \o <<" ">>, BrMaster, BrDev, BrFeat,
     <<"/", "x">>, <<" ", "/", "x">>, <<".", ".", "/", "x">>, <<"a", "/", ".", ".", "/", "b">>,
     <<"a", "/", "b">>, <<".", ".", "x">>}
ContextChoices ==
    {None, Some(WorktreeContext(None, Some(BrFeat))),
     Some(WorktreeContext(Some("ghost"), Some(BrFeat))),
     Some(WorktreeContext(Some("z80"), None))}
        \cup {Some(WorktreeContext(Some("z80"), Some(n))) : n \in BranchNames}

IdleTree ==
    [pc |-> "idle", context |-> None,
     repo |-> Repo(TRUE, None, None, None, "absent", "none", "ok"),
     out |-> ReturnedNone(NoEffects)]

\* cwd = resolve_run_cwd(context, projects=projects)
ResolveRunCwd ==
    /\ tree.pc = "given"
    /\ tree' = [tree EXCEPT
                   !.pc = "resolved",
                   !.out = resolve_run_cwd(tree.context, ProjectsRegistry, tree.repo)]
    /\ UNCHANGED <<inboxVars, topicVars, cmd, disk, codec, parsed, projected, other, replaces>>

\* path = ensure_worktree(project, branch), called on its own
EnsureWorktree ==
    /\ tree.pc = "given"
    /\ ~IsNone(tree.context)
    /\ TheVal(tree.context).project = Some("z80")
    /\ ~IsNone(TheVal(tree.context).branch)
    /\ tree' = [tree EXCEPT
                   !.pc = "ensured",
                   !.out = ensure_worktree(tree.repo, TheVal(TheVal(tree.context).branch),
                                           NoEffects)]
    /\ UNCHANGED <<inboxVars, topicVars, cmd, disk, codec, parsed, projected, other, replaces>>

NextWorktree == ResolveRunCwd \/ EnsureWorktree

\* -------------------------------------------------------- specifications
\* nothing has run yet
InitMore ==
    /\ tree = IdleTree
    /\ other = NewStream
    /\ replaces = 0
InitAux ==
    /\ cmd = IdleCmd
    /\ disk = IdleDisk
    /\ codec = IdleCodec
    /\ parsed = IdleParsed
    /\ projected = IdleProjected
    /\ InitMore

Init == InitInbox /\ InitTopic /\ InitAux
SpecInbox == Init /\ [][NextInbox]_vars
SpecGrow == Init /\ [][NextGrow]_vars
\* the consumer keeps pulling: a stream that can go on does go on
SpecReplace == Init /\ [][NextReplace]_vars
SpecTwo == Init /\ [][NextTwo]_vars
SpecLoop == Init /\ [][NextLoop]_vars
\* the sleep returns, the for loop goes on, and the consumer keeps asking
SpecLoopFair == SpecLoop /\ WF_vars(ReadStep) /\ WF_vars(LoopStep) /\ WF_vars(ResumeStep)
SpecTopic == Init /\ [][NextTopic]_vars
SpecTitle == Init /\ [][NextTitle]_vars
SpecRace == Init /\ [][NextRace]_vars
SpecCli == Init /\ [][NextCli]_vars
SpecAppend == Init /\ [][NextAppend]_vars

\* an envelope has been made
InitCodec ==
    /\ InitInbox /\ InitTopic
    /\ cmd = IdleCmd /\ disk = IdleDisk
    /\ parsed = IdleParsed /\ projected = IdleProjected /\ InitMore
    /\ codec \in {[IdleCodec EXCEPT !.pc = "made", !.env = e] : e \in EnvelopeSpace}
SpecCodec == InitCodec /\ [][NextCodec]_vars

\* the plugins tables have been read
InitConfig ==
    /\ InitInbox /\ InitTopic
    /\ cmd = IdleCmd /\ disk = IdleDisk /\ codec = IdleCodec
    /\ projected = IdleProjected /\ InitMore
    /\ parsed \in {[IdleParsed EXCEPT !.pc = "given", !.plugins = p] : p \in PluginsChoices}
SpecConfig == InitConfig /\ [][NextConfig]_vars

\* a snapshot has been read from the store
InitStatus ==
    /\ InitInbox /\ InitTopic
    /\ cmd = IdleCmd /\ disk = IdleDisk /\ codec = IdleCodec /\ parsed = IdleParsed
    /\ InitMore
    /\ projected \in {[IdleProjected EXCEPT !.pc = "given", !.snapshot = s,
                                             !.project_aliases = a] :
                          s \in SnapshotChoices, a \in AliasTables}
SpecStatus == InitStatus /\ [][NextStatus]_vars

\* a run context is to be resolved in a repository
InitWorktree ==
    /\ InitInbox /\ InitTopic
    /\ cmd = IdleCmd /\ disk = IdleDisk /\ codec = IdleCodec /\ parsed = IdleParsed
    /\ projected = IdleProjected /\ other = NewStream /\ replaces = 0
    /\ tree \in {[IdleTree EXCEPT !.pc = "given", !.context = c, !.repo = r] :
                    c \in ContextChoices, r \in RepoChoices}
SpecWorktree == InitWorktree /\ [][NextWorktree]_vars

\* ======================================================== claims: the inbox
\* helpers of the statements below
RecA == Encode(EnvA)
RecB == Encode(EnvB)
RecC == Encode(EnvC)
RawOf(msgs) == [i \in 1..Len(msgs) |-> msgs[i].raw]
IsPrefix(s, t) == Len(s) <= Len(t) /\ s = SubSeq(t, 1, Len(s))
\* the delimiter-terminated segments of some bytes, in order
CompleteSegs(bytes) ==
    LET segs == SplitNL(bytes) IN SubSeq(segs, 1, Len(segs) - 1)
\* a segment that is not blank and does not decode
IsMalformed(seg) == Strip(seg) # <<>> /\ ~Decode(Strip(seg)).ok
\* the messages of a sequence of segments, the first one numbered id
RECURSIVE ExpectedMessages(_, _)
ExpectedMessages(segs, id) ==
    IF segs = <<>> THEN <<>>
    ELSE LET m == LineOutcome(Head(segs), id)
         IN IF IsNone(m) THEN ExpectedMessages(Tail(segs), id)
            ELSE <<TheVal(m)>> \o ExpectedMessages(Tail(segs), id - 1)
\* the envelopes of the segments that decode, in order
RECURSIVE DecodedEnvelopes(_)
DecodedEnvelopes(segs) ==
    IF segs = <<>> THEN <<>>
    ELSE LET raw == Strip(Head(segs))
             d == IF raw = <<>> THEN [ok |-> FALSE] ELSE Decode(raw)
         IN (IF d.ok THEN <<d.env>> ELSE <<>>) \o DecodedEnvelopes(Tail(segs))
\* a stream run from where it is to the sleep that ends its cycle, the
\* consumer taking every message
RECURSIVE Drain(_)
Drain(st) == IF st.pc = "yield" THEN Drain(RunLines(st)) ELSE st
\* the complete segments among the bytes the stream has read of the file as
\* it is now, and those of them the for loop has visited
ConsumedSegs == CompleteSegs(SubSeq(file, 1, stream.offset))
VisitedSegs == SubSeq(ConsumedSegs, 1, Len(ConsumedSegs) - Len(stream.lines))
\* the messages yielded since the stream started on the file as it is now
YieldedSince ==
    SubSeq(stream.yielded, TheVal(synced) + 1, Len(stream.yielded))
StreamAlive == stream.pc \in {"start", "sleep", "yield"}

\* C1: while the queue file has only been appended to, the messages yielded
\* so far, followed by those of the lines read and not yet visited, are the
\* messages of the complete records among the bytes read, taken once each in
\* file order: nothing is reordered and nothing is yielded twice.
C1_FileOrderNoDuplicates ==
    deletes = 0 =>
        /\ stream.offset <= Len(file)
        /\ stream.yielded \o ExpectedMessages(stream.lines, stream.next_message_id)
               = ExpectedMessages(ConsumedSegs, -1)

\* C1 witness: two messages have been yielded over two polls of a file that
\* was only appended to.
C1_Witness ==
    /\ deletes = 0
    /\ Len(stream.yielded) >= 2
    /\ stream.remainder # <<>>
    /\ stream.pc = "sleep"

\* The C2 scenario: the file, only appended to, holds A, B and C, and the
\* stream has read A and the first j bytes of B (no delimiter), yielded A and
\* gone to sleep.
C2_PartialBThenRest(j) ==
    /\ j \in 1..Len(RecB)
    /\ deletes = 0
    /\ file = RecA \o <<NL>> \o RecB \o <<NL>> \o RecC \o <<NL>>
    /\ stream.pc = "sleep"
    /\ stream.offset = Len(RecA) + 1 + j
    /\ stream.remainder = SubSeq(RecB, 1, j)
    /\ RawOf(stream.yielded) = <<EnvA>>
\* The file, only appended to, holds A and a part of B without its delimiter.
C2_BIncomplete ==
    /\ deletes = 0
    /\ \E j \in 1..Len(RecB) : file = RecA \o <<NL>> \o SubSeq(RecB, 1, j)

\* C2 (amended): after A, a partial B and then the rest of B followed by C,
\* the tailer yields A, then B, then C; while B's bytes are incomplete no
\* message of B is yielded.
C2_YieldsABC ==
    /\ (\E j \in 1..Len(RecB) : C2_PartialBThenRest(j)) =>
           RawOf(Drain(PollCycle(stream, exists, file)).yielded)
               = <<EnvA, EnvB, EnvC>>
    /\ C2_BIncomplete =>
           /\ \A i \in 1..Len(stream.yielded) : stream.yielded[i].raw # EnvB
           /\ stream.pc = "sleep" /\ stream.offset = Len(file)
                  => RawOf(stream.yielded) = <<EnvA>>
    /\ ( /\ file = RecA \o <<NL>> \o RecB \o <<NL>> \o RecC \o <<NL>>
         /\ deletes = 0 /\ stream.pc = "sleep" /\ stream.offset = Len(file) )
           => RawOf(stream.yielded) = <<EnvA, EnvB, EnvC>>

\* C2 witness: the stream holds a part of B as its pending fragment, has
\* yielded A, and the rest of B and C are in the file.
C2_Witness == \E j \in 1..(Len(RecB) - 1) : C2_PartialBThenRest(j)

\* C2 as stated: in that scenario the tailer yields exactly A then C.
C2_Original_YieldsOnlyAC ==
    (\E j \in 1..Len(RecB) : C2_PartialBThenRest(j)) =>
        RawOf(Drain(PollCycle(stream, exists, file)).yielded) = <<EnvA, EnvC>>

\* the bytes with every complete malformed segment replaced by as many blanks
RECURSIVE JoinNL(_)
JoinNL(segs) ==
    IF Len(segs) = 1 THEN segs[1]
    ELSE segs[1] \o <<NL>> \o JoinNL(Tail(segs))
BlankMalformed(bytes) ==
    LET segs == SplitNL(bytes)
    IN JoinNL([i \in 1..Len(segs) |->
                  IF i < Len(segs) /\ IsMalformed(segs[i])
                  THEN [n \in 1..Len(segs[i]) |-> SP] ELSE segs[i]])

\* C7: in every state where a poll can read a payload that holds a malformed
\* record, the cycle ends at the sleep (the generator does not end), it
\* yields the messages of every valid trigger record of the payload, those
\* after a malformed record included, and it ends with the offset, fragment,
\* messages and next id of the same cycle run on bytes whose malformed
\* records are blank lines of equal length.
C7_MalformedSkippedLikeBlank ==
    (exists /\ stream.pc \in {"start", "sleep"}) =>
        \A r \in {ReadChunk(file, stream.offset)} :
        \A payload \in {stream.remainder \o r.chunk} :
        \A blanked \in {BlankMalformed(payload)} :
            LET nrem == Len(stream.remainder)
                bstream == [stream EXCEPT !.remainder = SubSeq(blanked, 1, nrem)]
                bfile == SubSeq(file, 1, Len(file) - Len(r.chunk))
                             \o SubSeq(blanked, nrem + 1, Len(blanked))
            IN blanked # payload =>
               \A a \in {Drain(PollCycle(stream, exists, file))} :
               \A b \in {Drain(PollCycle(bstream, exists, bfile))} :
                   /\ a.pc = "sleep"
                   /\ a.offset = b.offset
                   /\ a.remainder = b.remainder
                   /\ a.yielded = b.yielded
                   /\ a.next_message_id = b.next_message_id
                   /\ r.chunk # <<>> =>
                          a.yielded = stream.yielded
                              \o ExpectedMessages(CompleteSegs(payload),
                                                  stream.next_message_id)

\* C7 witness: the file holds a malformed record before a valid trigger
\* record, the stream has read all of it, is asleep and has yielded the
\* trigger record.
C7_Witness ==
    /\ deletes = 0
    /\ stream.pc = "sleep"
    /\ stream.offset = Len(file)
    /\ \E i, j \in 1..Len(CompleteSegs(file)) :
          /\ i < j
          /\ IsMalformed(CompleteSegs(file)[i])
          /\ ~IsNone(LineOutcome(CompleteSegs(file)[j], -1))
          /\ \E n \in 1..Len(stream.yielded) :
                stream.yielded[n].raw = Decode(Strip(CompleteSegs(file)[j])).env

\* C8: a poll of a missing file ends at the sleep with offset 0, an empty
\* fragment, no new message and the generator alive; and once a poll has
\* found the file missing, the records yielded since are those of the new
\* file from its first byte.
C8_MissingFileResets ==
    /\ [](StreamAlive)
    /\ [][(~exists /\ stream.pc \in {"start", "sleep"} /\ stream' # stream) =>
             /\ stream'.pc = "sleep"
             /\ stream'.offset = 0
             /\ stream'.remainder = <<>>
             /\ stream'.yielded = stream.yielded
             /\ stream'.next_message_id = stream.next_message_id]_vars
    /\ []((~exists /\ stream.pc \in {"start", "sleep"}) => ENABLED Poll)
    /\ []((deletes > 0 /\ ~IsNone(synced)) =>
             /\ stream.offset <= Len(file)
             /\ RawOf(YieldedSince
                     \o ExpectedMessages(stream.lines, stream.next_message_id))
                  = RawOf(ExpectedMessages(ConsumedSegs, -1)))

\* C8 witness: messages were yielded, the file was removed, a poll found it
\* missing, and records of the file created afterwards have been yielded.
C8_Witness ==
    /\ deletes > 0
    /\ ~IsNone(synced)
    /\ TheVal(synced) > 0
    /\ Len(stream.yielded) > TheVal(synced)

\* a trigger record whose text has a character that is no white space
IsLiveTrigger(e) ==
    e.intent = "trigger" /\ \E i \in 1..Len(e.text) : e.text[i] \notin WhiteChars

\* C9: the records that became messages are exactly the decoded records with
\* intent trigger and a text that is not blank, in order; control records and
\* blank trigger records give no message and do not end the stream.
C9_OnlyLiveTriggersTranslated ==
    /\ StreamAlive
    /\ ~IsNone(synced) =>
           RawOf(YieldedSince)
               = SelectSeq(DecodedEnvelopes(VisitedSegs), IsLiveTrigger)

\* C9 witness: a control record and a blank trigger record were visited
\* before a trigger record that was yielded.
C9_Witness ==
    /\ deletes = 0
    /\ Len(VisitedSegs) = 3
    /\ \E i, j \in 1..2 :
          /\ VisitedSegs[i] = Encode(EnvCtl)
          /\ VisitedSegs[j] = Encode(EnvBlank)
    /\ Len(stream.yielded) = 1

\* C10: the n-th message yielded has the chat id, thread id, text and
\* origin-agent label of the n-th live trigger record read from the file,
\* ingress source "swarm" and ingress intent "trigger".
C10_MessageCarriesRecordFields ==
    ~IsNone(synced) =>
        LET live == SelectSeq(DecodedEnvelopes(VisitedSegs), IsLiveTrigger)
        IN \A n \in 1..Len(YieldedSince) :
              /\ n <= Len(live)
              /\ YieldedSince[n].chat_id = live[n].chat_id
              /\ YieldedSince[n].thread_id = live[n].thread_id
              /\ YieldedSince[n].text = live[n].text
              /\ YieldedSince[n].origin_agent = live[n].origin_agent
              /\ YieldedSince[n].ingress_source = "swarm"
              /\ YieldedSince[n].ingress_intent = "trigger"

\* C10 witness: the messages of the test's record (chat 123, thread 19, from
\* "manager") and of a record with no thread and no label have been yielded.
C10_Witness ==
    /\ \E n \in 1..Len(stream.yielded) :
          /\ stream.yielded[n].chat_id = 123
          /\ stream.yielded[n].thread_id = Some(19)
          /\ stream.yielded[n].origin_agent = Some("manager")
    /\ \E n \in 1..Len(stream.yielded) :
          /\ stream.yielded[n].chat_id = -7
          /\ stream.yielded[n].thread_id = None
          /\ stream.yielded[n].origin_agent = None

\* ===================================== claims: the reconciliation service
\* helpers of the statements below
\* every request the call made of the chat platform succeeded
Healthy(c) == c.pc = "done" /\ c.renamed # Some(FALSE)
SameInputs(a, b) ==
    /\ a.chat_id = b.chat_id
    /\ a.project_key = b.project_key
    /\ a.project_alias = b.project_alias
    /\ a.branch = b.branch
    /\ a.bind_state = b.bind_state
\* the call follows, with the same inputs, a call the platform served well
FollowsSameHealthyCall(c) ==
    /\ ~IsNone(prev)
    /\ SameInputs(TheVal(prev), c)
    /\ Healthy(TheVal(prev))
Drifted(c) == c.renamed = Some(FALSE)

C4_OneThreadPerContext ==
    \A a, b \in store :
        (a.chat_id = b.chat_id /\ ~IsNone(a.context) /\ a.context = b.context)
            => a.thread_id = b.thread_id

\* C4 witness: a call has gone through the drift branch, created and bound a
\* new thread, and the store holds another binding too.
C4_Witness ==
    \E p \in Callers :
        /\ call[p].pc = "done"
        /\ Drifted(call[p])
        /\ call[p].bind_state
        /\ Cardinality(store) >= 2

\* C5 (amended): after a failed rename the binding of the old thread is
\* deleted and one creation is attempted; if it succeeds the call returns
\* created=true with the status of the new thread, not the old one; if it
\* fails the call raises and returns no status.
C5_DriftDeletesAndRecreates ==
    \A p \in Callers :
        LET c == call[p]
            old == TheVal(c.existing_thread_id)
        IN Drifted(c) =>
              /\ c.pc \in {"create", "set_new", "get_new", "done", "raised"} =>
                    IsNone(StoreGetThread(store, c.chat_id, old))
              /\ c.pc \in {"done", "raised"} => c.creates = 1
              /\ c.pc = "done" =>
                    /\ c.created
                    /\ TheVal(c.status).thread_id = TheVal(c.thread_id)
                    /\ TheVal(c.status).thread_id # old
                    /\ [chat_id |-> c.chat_id, thread_id |-> TheVal(c.thread_id),
                        name |-> c.title] \in topics
              /\ c.pc = "raised" => (IsNone(c.status) /\ IsNone(c.thread_id))

\* C5 witness: a call whose rename failed has returned.
C5_Witness ==
    \E p \in Callers :
        /\ call[p].pc = "done"
        /\ Drifted(call[p])
        /\ call[p].bind_state

\* C5 as stated: every call whose rename failed ends with the old binding
\* deleted, a new topic created and a status of the new thread returned with
\* created=true.
C5_Original_AlwaysReturnsNewThread ==
    \A p \in Callers :
        LET c == call[p]
            old == TheVal(c.existing_thread_id)
        IN (Drifted(c) /\ c.pc \in {"done", "raised"}) =>
              /\ IsNone(StoreGetThread(store, c.chat_id, old))
              /\ c.pc = "done"
              /\ c.created
              /\ TheVal(c.status).thread_id = TheVal(c.thread_id)
              /\ TheVal(c.status).thread_id # old

\* C6: a creation that fails makes the call raise; a call that raised made
\* one creation request, returned no status and wrote no binding: the store
\* holds nothing it did not hold when the call began.
C6_CreateFailureIsFatal ==
    /\ [][\A p \in Callers :
              (call[p].pc = "create" /\ call'[p].pc # "create" /\ topics' = topics)
                  => call'[p].pc = "raised"]_vars
    /\ [](\A p \in Callers :
              call[p].pc = "raised" =>
                  /\ call[p].creates = 1
                  /\ IsNone(call[p].status)
                  /\ call[p].sets = 0
                  /\ store \subseteq call[p].store0)

\* C6 witness: a call has raised although the store holds a binding (of an
\* earlier call).
C6_Witness ==
    \E p \in Callers : call[p].pc = "raised" /\ store # {}

\* ============================================ claims: the inbox, continued
\* the ids of the messages the stream has yielded, in order
YieldedIds == [i \in 1..Len(stream.yielded) |-> stream.yielded[i].message_id]

\* C11: the ids of the messages of one stream start at -1 and strictly
\* decrease, whatever happens to the file; all are negative, no two are
\* equal, and the id the next message will get is below all of them.
C11_IdsStrictlyDecreasingFromMinusOne ==
    /\ Len(YieldedIds) >= 1 => YieldedIds[1] = -1
    /\ \A i, j \in 1..Len(YieldedIds) :
          /\ YieldedIds[i] < 0
          /\ i < j => YieldedIds[j] < YieldedIds[i]
          /\ i # j => YieldedIds[i] # YieldedIds[j]
          /\ stream.next_message_id < YieldedIds[i]

\* C11 witness: the stream has yielded messages of a file, the file was
\* removed and made again, and the stream has yielded a message of the new
\* file.
C11_Witness ==
    /\ deletes > 0
    /\ ~IsNone(synced)
    /\ TheVal(synced) >= 1
    /\ Len(stream.yielded) > TheVal(synced)

HasUnknownField(seg) ==
    \E i \in 1..Len(seg) : IsMember(seg[i]) /\ seg[i].k \notin KnownFields
HasOnlyKnownFields(seg) == ~HasUnknownField(seg)

\* C17: a complete record with a field outside the known set does not decode
\* and gives no message; the stream goes on, and what it has yielded is what
\* the visited records without those records give.
C17_UnknownFieldRejected ==
    /\ StreamAlive
    /\ HasUnknownField(file) =>
           /\ \A segs \in {CompleteSegs(file)} :
                  \A i \in 1..Len(segs) :
                      HasUnknownField(segs[i]) =>
                          /\ ~Decode(Strip(segs[i])).ok
                          /\ IsNone(LineOutcome(segs[i], -1))
           /\ ~IsNone(synced) =>
                  RawOf(YieldedSince)
                      = RawOf(ExpectedMessages(
                                  SelectSeq(VisitedSegs, HasOnlyKnownFields), -1))

\* C17 witness: a record with an unknown field was visited, and a trigger
\* record after it was yielded.
C17_Witness ==
    /\ deletes = 0
    /\ Len(stream.yielded) >= 1
    /\ \E i, j \in 1..Len(VisitedSegs) :
          /\ i < j
          /\ HasUnknownField(VisitedSegs[i])
          /\ ~IsNone(LineOutcome(VisitedSegs[j], -1))

\* ============================ claims: the reconciliation service, continued
\* the thread a call that returned has settled on
ResultThread(c) ==
    IF c.created THEN TheVal(c.thread_id) ELSE TheVal(c.existing_thread_id)

\* C12: a call that returned has a status, of its chat and of the thread it
\* reused or created; when the store has no snapshot of that thread the
\* status carries the call's computed title, no sessions and no engine, and
\* the call's context if the binding was to be persisted.
C12_ReturnedStatusNeverAbsent ==
    \A p \in Callers :
        LET c == call[p]
        IN c.pc = "done" =>
              /\ ~IsNone(c.status)
              /\ TheVal(c.status).chat_id = c.chat_id
              /\ TheVal(c.status).thread_id = ResultThread(c)
              /\ IsNone(StoreGetThread(store, c.chat_id, ResultThread(c))) =>
                    /\ TheVal(c.status).topic_title = Some(c.title)
                    /\ TheVal(c.status).sessions = <<>>
                    /\ TheVal(c.status).default_engine = None
                    /\ TheVal(c.status).project =
                           IF c.bind_state THEN Some(c.project_alias) ELSE None
                    /\ TheVal(c.status).branch =
                           IF c.bind_state THEN c.branch ELSE None

\* C12 witness: a call has created a topic without persisting the binding
\* and has returned; the store has no snapshot of the new thread.
C12_Witness ==
    \E p \in Callers :
        /\ call[p].pc = "done"
        /\ call[p].created
        /\ IsNone(StoreGetThread(store, call[p].chat_id, ResultThread(call[p])))
        /\ ~IsNone(call[p].status)

\* =============================================== claims: the command line
\* the project of the command is no key of the registry
ProjectUnknown(project) ==
    \A k \in ProjectKeys : KeyChars(k) # Lower(StripChars(project))

\* C13: a topics ensure command given a project that is not registered is
\* over with a configuration error, and ensure_topic_thread was not called:
\* no call is in progress, none was begun, and the store and the topics of
\* the platform are as they were when the command began.
C13_UnknownProjectFailsBeforeAnyCall ==
    (cmd.pc # "idle" /\ ProjectUnknown(cmd.project) /\ cmd.error # Some("settings")) =>
        /\ cmd.pc = "config_error"
        /\ cmd.error = Some("unknown project")
        /\ \A p \in Callers : call[p].pc = "idle"
        /\ started = cmd.started0
        /\ store = cmd.store0
        /\ topics = cmd.topics0

\* C13 witness: after a command that bound a topic, a command for a project
\* that is not registered has ended with the error.
C13_Witness ==
    /\ cmd.n = 2
    /\ store # {}
    /\ ProjectUnknown(cmd.project)
    /\ cmd.error = Some("unknown project")

\* ================================================== claims: the appender
\* the delimiters among some bytes
Delimiters(bytes) == {i \in 1..Len(bytes) : bytes[i] = NL}

\* C14: after a call of append_swarm_envelope the directory and the file
\* exist, the file was opened for appending, and its content is what it was
\* before the call followed by what the one write of the call wrote: the
\* encoded envelope, which decodes to it, and after it the only delimiter.
C14_AppendOnlyOneRecord ==
    disk.pc = "appended" =>
        /\ disk.fs.dir /\ disk.fs.exists
        /\ disk.mode = "ab"
        /\ Len(disk.writes) = 1
        /\ disk.fs.bytes = disk.before.bytes \o disk.writes[1]
        /\ Delimiters(disk.writes[1]) = {Len(disk.writes[1])}
        /\ LET record == SubSeq(disk.writes[1], 1, Len(disk.writes[1]) - 1)
           IN /\ Decode(record).ok
              /\ Decode(record).env = TheVal(disk.envelope)

\* C14 witness: a call has appended to a file that held two records, and an
\* earlier call had made the directory that was missing.
C14_Witness ==
    /\ disk.pc = "appended"
    /\ Cardinality(Delimiters(disk.before.bytes)) = 2
    /\ disk.n = 3

\* ===================================================== claims: the codec
\* C16: the decoding of the encoding of an envelope succeeds and gives an
\* envelope with the same eight fields, each equal to the one encoded.
C16_DecodeOfEncodeIsIdentity ==
    codec.pc = "decoded" =>
        /\ codec.back.ok
        /\ DOMAIN codec.back.env = KnownFields
        /\ codec.back.env.version = codec.env.version
        /\ codec.back.env.event_id = codec.env.event_id
        /\ codec.back.env.intent = codec.env.intent
        /\ codec.back.env.chat_id = codec.env.chat_id
        /\ codec.back.env.thread_id = codec.env.thread_id
        /\ codec.back.env.text = codec.env.text
        /\ codec.back.env.origin_agent = codec.env.origin_agent
        /\ codec.back.env.created_at = codec.env.created_at

\* C16 witness: an envelope with a version that is not the default, a
\* negative chat id of several digits, a thread id and no agent has been
\* through the encoding and the decoding.
C16_Witness ==
    /\ codec.pc = "decoded"
    /\ codec.env.version = 12
    /\ codec.env.chat_id = -120
    /\ codec.env.thread_id = Some(0)
    /\ codec.env.origin_agent = None
    /\ codec.env.text = <<>>

\* ------------------------------------------- claims: the ingress configuration
\* the swarm table that was parsed, when the plugins tables hold one
HasSwarmTable ==
    /\ parsed.pc = "resolved"
    /\ ~IsNone(parsed.plugins)
    /\ ~IsNone(TheVal(parsed.plugins).swarm)
    /\ TheVal(TheVal(parsed.plugins).swarm).is_table
ParsedTable == TheVal(TheVal(parsed.plugins).swarm).table
\* the section is enabled and its inbox path is good, so that parsing comes
\* to the poll interval
ReachesPollInterval ==
    /\ HasSwarmTable
    /\ ParsedTable.enabled = Some(BoolVal(TRUE))
    /\ ResolveInboxPath(ParsedTable.inbox_path).ok
\* the poll interval given is a number (a bool is an int) that is 0 or less
NonPositivePollInterval ==
    /\ ~IsNone(ParsedTable.poll_interval_s)
    /\ \/ /\ TheVal(ParsedTable.poll_interval_s).t \in {"bool", "int", "float"}
          /\ TheVal(ParsedTable.poll_interval_s).n <= 0
       \/ ParsedTable.poll_interval_s = Some(Inf(-1))

\* C18 (the part that holds): a poll interval that is a number and is 0 or
\* less never gives a configuration, and is rejected with a configuration
\* error that names poll_interval_s when parsing comes to it.
C18_NonPositiveRejected ==
    (HasSwarmTable /\ NonPositivePollInterval) =>
        /\ parsed.out.kind # "config"
        /\ ReachesPollInterval => parsed.out = ConfigError("poll_interval_s")

\* C18 as stated: every non-positive numeric poll interval is rejected with
\* a configuration error, and a configuration is only ever produced with a
\* poll interval > 0.  The float that is no number is not <= 0, so it passes
\* the check and a configuration is produced whose poll interval is not > 0.
C18_Original_EveryConfigHasPositiveInterval ==
    /\ C18_NonPositiveRejected
    /\ (parsed.pc = "resolved" /\ parsed.out.kind = "config") =>
           GtZero(parsed.out.poll_interval_s)

\* a configuration was produced from poll_interval_s = nan
C18_Witness ==
    /\ ReachesPollInterval
    /\ ParsedTable.poll_interval_s = Some(NaN)
    /\ parsed.out.kind = "config"
    /\ parsed.out.poll_interval_s = NaN

\* C19: the enabled option gates the ingress: no configuration when the swarm
\* section is absent or enabled is absent or false; a configuration only when
\* enabled is true; a configuration error that names enabled when enabled is
\* given and is no boolean.
C19_EnabledGatesIngress ==
    parsed.pc = "resolved" =>
        /\ (IsNone(parsed.plugins) \/ IsNone(TheVal(parsed.plugins).swarm)) =>
               parsed.out = NoConfig
        /\ HasSwarmTable =>
               /\ ParsedTable.enabled \in {None, Some(BoolVal(FALSE))} =>
                      parsed.out = NoConfig
               /\ parsed.out.kind = "config" =>
                      ParsedTable.enabled = Some(BoolVal(TRUE))
               /\ ParsedTable.enabled = Some(BoolVal(TRUE)) =>
                      /\ parsed.out.kind \in {"config", "error"}
                      /\ parsed.out.option # "enabled"
               /\ (~IsNone(ParsedTable.enabled)
                      /\ TheVal(ParsedTable.enabled).t # "bool") =>
                      parsed.out = ConfigError("enabled")

\* enabled = 1, an int and no boolean, was rejected
C19_Witness ==
    /\ HasSwarmTable
    /\ ParsedTable.enabled = Some(IntVal(1))
    /\ ParsedTable.poll_interval_s = Some(FloatVal(20))
    /\ parsed.out = ConfigError("enabled")

\* ------------------------------------------- claims: the status of a snapshot
\* the place of a session key in sorted order
SessionRank(k) == CHOOSE i \in 1..Len(SessionOrder) : SessionOrder[i] = k
\* the aliases the table has for the snapshot's project key
AliasesOfKey ==
    {kv[2] : kv \in {x \in projected.project_aliases :
                        x[1] = TheVal(projected.snapshot.context).project}}

\* C20: snapshot_to_status copies chat id, thread id, title and default
\* engine from the snapshot; project is the alias of the snapshot's project
\* key, or the raw key when the alias table has no entry; the sessions are
\* the snapshot's, in sorted order; a snapshot with no context gives project
\* and branch both unset.
C20_SnapshotToStatusIsPureMapping ==
    projected.pc = "done" =>
        LET s == projected.snapshot
            r == projected.status
        IN /\ r.chat_id = s.chat_id
           /\ r.thread_id = s.thread_id
           /\ r.topic_title = s.topic_title
           /\ r.default_engine = s.default_engine
           /\ IsNone(s.context) => (r.project = None /\ r.branch = None)
           /\ ~IsNone(s.context) =>
                  /\ r.branch = TheVal(s.context).branch
                  /\ AliasesOfKey = {} => r.project = Some(TheVal(s.context).project)
                  /\ AliasesOfKey # {} =>
                         (~IsNone(r.project) /\ TheVal(r.project) \in AliasesOfKey)
           /\ Len(r.sessions) = Cardinality(s.sessions)
           /\ {r.sessions[i] : i \in 1..Len(r.sessions)} = s.sessions
           /\ \A i \in 1..(Len(r.sessions) - 1) :
                  SessionRank(r.sessions[i]) < SessionRank(r.sessions[i + 1])

\* a snapshot of a project with no alias and three sessions was projected
C20_Witness ==
    /\ projected.pc = "done"
    /\ projected.snapshot.context = Some(RunContext("ghost", Some(<<"d", "e", "v">>)))
    /\ projected.project_aliases = {<<"demo", "Demo">>, <<"api", "Api">>}
    /\ projected.snapshot.sessions = {"gemini", "claude", "codex"}
    /\ projected.status.project = Some("ghost")
    /\ projected.status.sessions = <<"claude", "codex", "gemini">>

\* ===================================================== claims: the worktrees
\* the context names the registered project
OfProject ==
    /\ ~IsNone(tree.context)
    /\ TheVal(tree.context).project = Some("z80")
AskedBranch == TheVal(tree.context).branch
\* a name that is empty once trimmed, starts with a slash, or has a ".."
\* component
InvalidName(name) ==
    \/ StripChars(name) = <<>>
    \/ StripChars(name)[1] = "/"
    \/ \E i \in 1..Len(PathParts(StripChars(name))) :
          PathParts(StripChars(name))[i] = <<".", ".">>
\* the branch asked for is a valid name and so is the project's base branch,
\* when it has one
BranchAndBaseValid ==
    /\ OfProject
    /\ ~IsNone(AskedBranch)
    /\ ~InvalidName(TheVal(AskedBranch))
    /\ ProjectBaseBranch(tree.repo, NoEffects).ok
Cleaned == StripChars(TheVal(AskedBranch))
ReservedHere == RootReservedBranches(ProjectBaseBranch(tree.repo, NoEffects).base)
WorktreeAdds(fx) == Len(SelectSeq(fx.git, LAMBDA c : c = "worktree add"))

\* C21: for a context of a registered project, resolve_run_cwd gives the
\* project root when the context has no branch; for a branch in the reserved
\* set (main, master, the project's base branch) no worktree is added and no
\* directory made, and no worktree path is returned; for every other branch
\* the outcome is that of ensure_worktree for the cleaned branch, a path
\* being the worktree's path, also when the root is on that same branch.
C21_RoutesByBranch ==
    (tree.pc = "resolved" /\ OfProject) =>
        /\ IsNone(AskedBranch) => tree.out = Returned(ProjectRoot, NoEffects)
        /\ (BranchAndBaseValid /\ Cleaned \in ReservedHere) =>
               /\ WorktreeAdds(tree.out.fx) = 0
               /\ tree.out.fx.mkdirs = 0
               /\ tree.out.path.at # "worktrees"
        /\ (BranchAndBaseValid /\ Cleaned \notin ReservedHere) =>
               /\ tree.out = ensure_worktree(tree.repo, Cleaned,
                                             ProjectBaseBranch(tree.repo, NoEffects).fx)
               /\ tree.out.kind = "path" => tree.out.path = WorktreePath(Cleaned)
               /\ tree.out.path # ProjectRoot

\* the root is on the branch asked for, which is not reserved, and the call
\* gave the worktree made for it
C21_Witness ==
    /\ tree.pc = "resolved"
    /\ BranchAndBaseValid
    /\ Cleaned = BrFeat
    /\ tree.repo.current = Some(BrFeat)
    /\ tree.repo.dir = "absent"
    /\ tree.out.kind = "path"
    /\ tree.out.path = WorktreePath(BrFeat)
    /\ WorktreeAdds(tree.out.fx) = 1

\* the root is on the branch asked for, or both are main or master
RootMatches ==
    /\ ~IsNone(tree.repo.current)
    /\ \/ TheVal(tree.repo.current) = Cleaned
       \/ /\ Cleaned \in MAINLINE_ROOT_BRANCHES
          /\ TheVal(tree.repo.current) \in MAINLINE_ROOT_BRANCHES

\* C22: for a reserved branch, resolve_run_cwd returns the project root
\* exactly when the root's current branch is the branch asked for or both are
\* in {main, master}; in every other case, the current branch being unknown
\* included, it raises WorktreeError and returns no path.
C22_ReservedNeedsRootCheckout ==
    (tree.pc = "resolved" /\ BranchAndBaseValid /\ Cleaned \in ReservedHere) =>
        /\ RootMatches => (tree.out.kind = "path" /\ tree.out.path = ProjectRoot)
        /\ ~RootMatches => (tree.out.kind = "error" /\ tree.out.path = NoDir)

\* master was asked for while the root is on main: the root is returned
C22_Witness ==
    /\ tree.pc = "resolved"
    /\ BranchAndBaseValid
    /\ Cleaned = BrMaster
    /\ tree.repo.current = Some(BrMain)
    /\ tree.out = Returned(ProjectRoot, tree.out.fx)

BranchNameErrors ==
    {"branch name cannot be empty", "branch name cannot start with '/'",
     "branch name cannot contain '..'"}

\* C23: for a registered project, a branch name that is empty once trimmed,
\* starts with a slash or has a ".." component makes resolve_run_cwd and
\* ensure_worktree raise WorktreeError with no git command run and no
\* directory made; the error is the one about the branch name, except that
\* ensure_worktree reports a missing project path first.
C23_InvalidBranchRejectedFirst ==
    (tree.pc \in {"resolved", "ensured"} /\ OfProject /\ ~IsNone(AskedBranch)
        /\ InvalidName(TheVal(AskedBranch))) =>
        /\ tree.out.kind = "error"
        /\ tree.out.path = NoDir
        /\ tree.out.fx = NoEffects
        /\ (tree.pc = "resolved" \/ tree.repo.root_exists) =>
               tree.out.msg \in BranchNameErrors

\* a/../b was asked of a repository where everything else would succeed
C23_Witness ==
    /\ tree.pc = "resolved"
    /\ OfProject
    /\ AskedBranch = Some(<<"a", "/", ".", ".", "/", "b">>)
    /\ tree.repo.root_exists /\ tree.repo.dir = "absent" /\ tree.repo.add = "ok"
    /\ tree.repo.worktree_base = None /\ tree.repo.default_base = None
    /\ tree.out = WorktreeError("branch name cannot contain '..'", NoEffects)

\* ======================================== claims: the title of a topic
\* the title of a call: the alias alone when the branch is absent or empty,
\* else the alias, " @" and the branch
TitleOf(c) ==
    IF IsNone(c.branch) \/ TheVal(c.branch) = <<>> THEN <<c.project_alias>>
    ELSE <<c.project_alias, " @", TheVal(c.branch)>>

\* C26: the title a call computes is the alias alone when the branch is
\* absent or empty, else the alias, " @" and the branch; when the call has
\* returned, the external topic of the thread it settled on has that title
\* (by the rename or by the creation), and if the binding was to be persisted
\* the store's title for the thread and the title of the returned status are
\* that title too.
C26_OneTitleEverywhere ==
    \A p \in Callers :
        LET c == call[p]
        IN /\ c.pc # "idle" => c.title = TitleOf(c)
           /\ c.pc = "done" =>
                 /\ \E x \in topics :
                       /\ x.chat_id = c.chat_id
                       /\ x.thread_id = ResultThread(c)
                       /\ x.name = TitleOf(c)
                 /\ c.bind_state =>
                       /\ TheVal(c.status).topic_title = Some(TitleOf(c))
                       /\ \E s \in store :
                             /\ s.chat_id = c.chat_id
                             /\ s.thread_id = ResultThread(c)
                             /\ s.context = Some(Context(c))
                             /\ s.topic_title = Some(TitleOf(c))

\* a call with an empty branch and a new alias reused its thread: topic,
\* store and status have the new alias alone as title
C26_Witness ==
    /\ call[1].pc = "done"
    /\ call[1].branch = Some(<<>>)
    /\ call[1].bind_state
    /\ ~call[1].created
    /\ call[1].project_alias = "Demo v2"
    /\ TheVal(call[1].status).topic_title = Some(<<"Demo v2">>)
    /\ \E x \in topics : x.thread_id = ResultThread(call[1]) /\ x.name = <<"Demo v2">>

\* ================================ claims: the inbox, a file that only grows
\* the bytes after the last delimiter of some bytes
LastSeg(bytes) == SplitNL(bytes)[Len(SplitNL(bytes))]
\* the bytes of the file the stream has not read
Unread == SubSeq(file, stream.offset + 1, Len(file))

\* C24: a poll of new bytes yields the messages of the delimiter-terminated
\* segments of the pending fragment followed by the new bytes, and of nothing
\* else: the bytes after the last delimiter are not decoded in that poll and
\* are the pending fragment after it; a poll of no new bytes keeps fragment
\* and messages; so the messages yielded or about to be are as many as the
\* complete records read, each record counting once however many polls its
\* bytes took to arrive.
C24_FragmentHeldForNextPoll ==
    /\ (exists /\ stream.pc \in {"start", "sleep"}) =>
          \A payload \in {stream.remainder \o Unread} :
          \A a \in {Drain(PollCycle(stream, exists, file))} :
              /\ Unread # <<>> =>
                    /\ a.remainder = LastSeg(payload)
                    /\ a.yielded = stream.yielded
                          \o ExpectedMessages(CompleteSegs(payload), stream.next_message_id)
              /\ Unread = <<>> =>
                    (a.remainder = stream.remainder /\ a.yielded = stream.yielded)
    /\ Len(stream.yielded) + Len(ExpectedMessages(stream.lines, stream.next_message_id))
          = Len(ExpectedMessages(ConsumedSegs, -1))

\* all the bytes of record C but its delimiter have been read in a poll that
\* yielded A: C is held as the fragment and has not been yielded
C24_Witness ==
    /\ stream.pc = "sleep"
    /\ stream.offset = Len(file)
    /\ stream.remainder = RecC
    /\ inflight = <<NL>>
    /\ RawOf(stream.yielded) = <<EnvA>>

\* where the stream stands in the file: its offset and its fragment
C27_Bookkeeping ==
    /\ stream.offset <= Len(file)
    /\ stream.remainder = LastSeg(SubSeq(file, 1, stream.offset))
    /\ ReadChunk(file, stream.offset).chunk = Unread
    /\ LET end == stream.offset - Len(stream.remainder)
       IN /\ end >= 0
          /\ end = 0 \/ file[end] = NL
          /\ \A i \in (end + 1)..stream.offset : file[i] # NL
\* a poll of the file takes the offset to the end of the file, and no step
\* takes it back
C27_Advance ==
    /\ stream'.offset >= stream.offset
    /\ (exists /\ stream.pc \in {"start", "sleep"} /\ stream' # stream) =>
           stream'.offset = Len(file)

\* C27: for a file that exists and only grows, the offset is the number of
\* bytes of the file read so far and the fragment is the bytes between the
\* last delimiter read and the offset, so that offset minus fragment length
\* is the end of the last complete record; every poll leaves the offset at
\* the size of the file, and the offset never decreases, so that each poll
\* reads the bytes after those read before.
C27_OffsetAndFragmentTrackFile ==
    [](C27_Bookkeeping) /\ [][C27_Advance]_vars

\* two records and the first bytes of a third have been read by the stream
C27_Witness ==
    /\ stream.pc = "sleep"
    /\ stream.offset = Len(file)
    /\ Len(ConsumedSegs) = 2
    /\ stream.remainder # <<>>
    /\ stream.offset - Len(stream.remainder) > 0

\* the messages of the complete records of the file
LiveMessages == ExpectedMessages(CompleteSegs(file), -1)

\* C25: if the file exists and is only appended to and the consumer keeps
\* pulling, the n-th complete record of the file that is a trigger with text
\* that is not blank is eventually the n-th message yielded.
C25_LiveRecordsEventuallyYielded ==
    \A n \in 1..MaxLines :
        (exists /\ Len(LiveMessages) >= n)
            ~> (Len(stream.yielded) >= n /\ stream.yielded[n] = LiveMessages[n])

\* every trigger record of the file has been yielded, two of them at least
C25_Witness ==
    /\ exists
    /\ Len(LiveMessages) >= 2
    /\ stream.yielded = LiveMessages
    /\ inflight = <<>>

\* =========================== claims: the inbox, a file removed or replaced
\* C28: the k-th message a stream has yielded has id -k and the next id is
\* one below the last, whatever records were skipped in between; a poll that
\* finds the file missing resets offset and fragment and leaves the id
\* counter as it is.
C28_KthMessageHasIdMinusK ==
    /\ \A k \in 1..Len(stream.yielded) : stream.yielded[k].message_id = -k
    /\ stream.next_message_id = -(Len(stream.yielded) + 1)
    /\ stream.pc \in {"start", "sleep"} =>
          \A a \in {PollCycle(stream, FALSE, file)} :
              /\ a.next_message_id = stream.next_message_id
              /\ a.offset = 0
              /\ a.remainder = <<>>
              /\ a.yielded = stream.yielded

\* record A was yielded, the file disappeared, and the file that came back
\* holds a control record and then A, yielded with id -2
C28_Witness ==
    /\ deletes = 1
    /\ exists
    /\ CompleteSegs(file) = <<Encode(EnvCtl), RecA>>
    /\ RawOf(stream.yielded) = <<EnvA, EnvA>>
    /\ stream.yielded[2].message_id = -2
    /\ stream.pc = "sleep"

\* the file is shorter than the offset the stream holds
FileShrunk == exists /\ Len(file) < stream.offset

\* C29: a poll that finds the file shorter than its offset reads the whole
\* file from byte 0 and leaves the offset at the size of the file; the
\* fragment is kept, not cleared as it is for a missing file, and stands
\* before the bytes read: the messages of the poll are those of the complete
\* segments of fragment followed by file, so with no fragment pending every
\* trigger record of the file is yielded, yielded before or not.
C29_ShorterFileReadFromStart ==
    (FileShrunk /\ stream.pc \in {"start", "sleep"}) =>
        \A payload \in {stream.remainder \o file} :
        \A a \in {Drain(PollCycle(stream, exists, file))} :
            /\ ReadChunk(file, stream.offset) =
                  [chunk |-> file, offset |-> Len(file), handles |-> 0]
            /\ a.offset = Len(file)
            /\ file # <<>> =>
                  /\ a.remainder = LastSeg(payload)
                  /\ a.yielded = stream.yielded
                        \o ExpectedMessages(CompleteSegs(payload), stream.next_message_id)
            /\ file = <<>> =>
                  (a.remainder = stream.remainder /\ a.yielded = stream.yielded)
            /\ PollCycle(stream, FALSE, file).remainder = <<>>

\* the file held A and a control record and A was yielded; the file was
\* replaced by one that holds A alone, and A has been yielded again
C29_Witness ==
    /\ replaces = 1
    /\ deletes = 0
    /\ file = Append(RecA, NL)
    /\ stream.pc = "sleep"
    /\ stream.offset = Len(file)
    /\ RawOf(stream.yielded) = <<EnvA, EnvA>>

\* ================================== claims: two streams on one queue file
\* what a stream that has read the first n bytes of the file has yielded or
\* is about to yield
OwnMessages(s) == s.yielded \o ExpectedMessages(s.lines, s.next_message_id)
\* a stream of its own: it starts at offset 0 with no fragment and id -1,
\* and its messages are those of the complete records among the bytes of the
\* file it has read itself, numbered from -1
OwnsItsState(s) ==
    /\ s.pc = "start" => s = NewStream
    /\ s.offset <= Len(file)
    /\ s.remainder = LastSeg(SubSeq(file, 1, s.offset))
    /\ s.next_message_id = -(Len(s.yielded) + 1)
    /\ OwnMessages(s) = ExpectedMessages(CompleteSegs(SubSeq(file, 1, s.offset)), -1)
\* a step of one stream leaves the other stream as it was
C30_NoInterference ==
    /\ stream' # stream => other' = other
    /\ other' # other => stream' = stream

\* C30: each stream has its own offset, fragment and id counter: it starts
\* at offset 0 with an empty fragment and id -1, what it yields is given by
\* the bytes of the file it has read itself, so it yields every trigger
\* record of the file whatever the other stream has yielded, and a step of
\* one stream never changes the other.
C30_StreamsOwnTheirState ==
    [](OwnsItsState(stream) /\ OwnsItsState(other)) /\ [][C30_NoInterference]_vars

\* the first stream has read the whole file and yielded A and C; the second,
\* started on the same file, has yielded A and is suspended there with C to
\* come
C30_Witness ==
    /\ stream.pc = "sleep"
    /\ stream.offset = Len(file)
    /\ RawOf(stream.yielded) = <<EnvA, EnvC>>
    /\ other.pc = "yield"
    /\ other.yielded = <<stream.yielded[1]>>
    /\ other.lines = <<RecC>>

\* ============================= claims: the reconciliation service, raced
\* a call that has made its topic
HasCreated(c) == c.created /\ c.pc \in {"set_new", "get_new", "done"}
\* the context every call of the race is for
RaceContext == RunContext("demo", RaceBranch)
\* the lookup of a call answers from the store as it is at that moment,
\* whatever the other calls are doing: with no thread bound to the context
\* the call goes on to create one
C31_LookupSeesStoreOnly ==
    \A p \in Callers :
        (call[p].pc = "find" /\ call'[p].pc # "find") =>
            IF StoreThreadsForContext(store, 1, RaceContext) = {}
            THEN call'[p].pc = "create" /\ IsNone(call'[p].existing_thread_id)
            ELSE /\ call'[p].pc = "rename"
                 /\ TheVal(call'[p].existing_thread_id)
                        \in StoreThreadsForContext(store, 1, RaceContext)
\* every call that has created has a topic of its own on the platform
C31_OwnTopicEach ==
    /\ \A p \in Callers :
          HasCreated(call[p]) =>
              /\ call[p].creates = 1
              /\ \E x \in topics : x.chat_id = call[p].chat_id
                                   /\ x.thread_id = TheVal(call[p].thread_id)
    /\ \A p, q \in Callers :
          (p # q /\ HasCreated(call[p]) /\ HasCreated(call[q])) =>
              call[p].thread_id # call[q].thread_id

\* C31: nothing holds a call of ensure_topic_thread back between its lookup
\* and its create: the lookup answers from the store alone, and every call
\* that reaches the create makes a topic of its own, so calls for one chat
\* and context that run together each find no thread and each create a
\* topic.
C31_NoLockBetweenLookupAndCreate ==
    [](C31_OwnTopicEach) /\ [][C31_LookupSeesStoreOnly]_vars

\* two calls for one context began on an empty store, both found no thread,
\* both created and persisted: two topics of the chat, two threads of the
\* store bound to the context
C31_Witness ==
    /\ \A p \in {1, 2} :
          /\ call[p].pc = "done"
          /\ call[p].created
          /\ IsNone(call[p].existing_thread_id)
          /\ call[p].bind_state
          /\ call[p].store0 = {}
    /\ call[1].title = call[2].title
    /\ Cardinality({x \in topics : x.chat_id = 1 /\ x.name = call[1].title}) = 2
    /\ Cardinality(StoreThreadsForContext(store, 1, RaceContext)) = 2

\* ====================== claims: the reconciliation service, its store writes
\* the call of the one caller, and the threads a store binds to its context
TheCall == call[1]
BoundThreads(st) == StoreThreadsForContext(st, TheCall.chat_id, Context(TheCall))

\* C32: a call that found a binding, could not rename its topic and could
\* not create a new one has raised with the binding already deleted: the
\* store is the store of the call's beginning less that thread, it binds no
\* thread to the context, and the binding it held is not put back.
C32_RaisesAfterStaleDeleted ==
    (TheCall.pc = "raised" /\ ~IsNone(TheCall.existing_thread_id)) =>
        \A t \in {TheVal(TheCall.existing_thread_id)} :
            /\ TheCall.renamed = Some(FALSE)
            /\ TheCall.creates = 1
            /\ ~TheCall.created
            /\ t \in BoundThreads(TheCall.store0)
            /\ store = StoreDeleteThread(TheCall.store0, TheCall.chat_id, t)
            /\ IsNone(StoreGetThread(store, TheCall.chat_id, t))
            /\ BoundThreads(store) = {}

\* a call has raised after its rename and its create both failed: the
\* context was bound when it began and is bound no more
C32_Witness ==
    /\ TheCall.pc = "raised"
    /\ TheCall.renamed = Some(FALSE)
    /\ BoundThreads(TheCall.store0) # {}
    /\ BoundThreads(store) = {}
    /\ store # TheCall.store0

\* C33: a call with the persist flag false never calls set_context, on the
\* reuse branch or the create branch: the store is the store of the call's
\* beginning, or that store less the stale thread once the rename has
\* failed, and it is the store of the beginning whenever no thread was bound
\* to the context.
C33_NoPersistNoBindingWritten ==
    (TheCall.pc # "idle" /\ ~TheCall.bind_state) =>
        /\ TheCall.sets = 0
        /\ TheCall.pc \notin {"set_reuse", "set_new"}
        /\ BoundThreads(TheCall.store0) = {} => store = TheCall.store0
        /\ \/ store = TheCall.store0
           \/ /\ TheCall.renamed = Some(FALSE)
              /\ TheCall.pc \in {"create", "get_new", "raised", "done"}
              /\ store = StoreDeleteThread(TheCall.store0, TheCall.chat_id,
                                           TheVal(TheCall.existing_thread_id))

\* a call without the persist flag found no thread for its context in a
\* store that binds another context, created a topic and returned: the
\* store is as it was
C33_Witness ==
    /\ TheCall.pc = "done"
    /\ ~TheCall.bind_state
    /\ TheCall.created
    /\ IsNone(TheCall.existing_thread_id)
    /\ TheCall.store0 # {}
    /\ store = TheCall.store0

====
